---- MODULE Spec2Model ----
(***************************************************************************)
(* Model of the golf_obd protocol core: the ELM327 transport               *)
(* (connection.py), the frame parser and parameter reads (reader.py) and   *)
(* the parameter catalog (pids.py).                                        *)
(*                                                                         *)
(* Text is a sequence of one-character strings, so that the code's string  *)
(* operations (replace, strip, split, upper, "in") are computed character  *)
(* by character.  An optional value is Nothing (Python None) or Just(x).   *)
(* A decoded number is the exact fraction <<numerator, denominator>>.      *)
(***************************************************************************)
EXTENDS Integers, Sequences, FiniteSets, TLC

VARIABLES
    _serial,      \* ELM327Connection._serial: 0 is None, else a channel id
    _connected,   \* ELM327Connection._connected
    _protocol,    \* ELM327Connection._protocol: Nothing or Just(digit)
    isOpen,       \* the channels (serial.Serial objects) whose is_open is true
    opened,       \* how many channels serial.Serial() has created so far
    pc,           \* "idle", or "init" while initialize() is between two sends
    initArg,      \* the protocol argument of the running initialize()
    tx,           \* the byte strings written to the channel by the current/last call
    lastRx,       \* the bytes the read loop of the last exchange accumulated
    lastResp,     \* what the last send_raw of the current/last call returned
    result,       \* outcome of the last completed call: [op, arg, kind, value]
    life,         \* history: the last lifecycle event of the connection
    _supported_pids,  \* OBDReader._supported_pids
    _supported_dids,  \* OBDReader._supported_dids
    in_buffer,    \* the input buffer of the channel _serial: bytes not read yet
    accumulated,  \* the bytes `response` of _read_until_prompt in the current/last call
    clock,        \* time.time() - start_time of that loop, in ticks
    trace         \* history: what the send_raw of the current/last call did to the channel

vars == <<_serial, _connected, _protocol, isOpen, opened, pc, initArg, tx,
          lastRx, lastResp, result, life, _supported_pids, _supported_dids,
          in_buffer, accumulated, clock, trace>>

\* the fields of the OBDReader
readerVars == <<_supported_pids, _supported_dids>>

\* the input buffer and the locals of a send: sends made in one step leave
\* them alone
channelVars == <<in_buffer, accumulated, clock, trace>>

-----------------------------------------------------------------------------
(* Optional values *)

Nothing == <<>>
Just(x) == <<x>>
IsJust(o) == Len(o) = 1
FromJust(o) == o[1]

-----------------------------------------------------------------------------
(* Characters and Python's str operations *)

CR == "\r"
LF == "\n"
NonAscii == "<80>"      \* stands for any byte >= 0x80 (dropped by decode)

HexDigits == <<"0","1","2","3","4","5","6","7","8","9","A","B","C","D","E","F">>
LowerLetters == <<"a","b","c","d","e","f","g","h","i","j","k","l","m",
                  "n","o","p","q","r","s","t","u","v","w","x","y","z">>
UpperLetters == <<"A","B","C","D","E","F","G","H","I","J","K","L","M",
                  "N","O","P","Q","R","S","T","U","V","W","X","Y","Z">>
Whitespace == {" ", "\t", CR, LF}

UpperChar(c) ==
    IF \E i \in 1..26 : LowerLetters[i] = c
    THEN UpperLetters[CHOOSE i \in 1..26 : LowerLetters[i] = c]
    ELSE c

\* str.upper()
Upper(s) == [i \in 1..Len(s) |-> UpperChar(s[i])]

IsHexChar(c) == \E i \in 1..16 : HexDigits[i] = UpperChar(c)
HexVal(c) == (CHOOSE i \in 1..16 : HexDigits[i] = UpperChar(c)) - 1

\* format(n, "02X") and format(n, "04X")
Hex2(n) == <<HexDigits[((n \div 16) % 16) + 1], HexDigits[(n % 16) + 1]>>
Hex4(n) == Hex2(n \div 256) \o Hex2(n % 256)

\* sub in s
Contains(s, sub) ==
    \E i \in 1..(Len(s) - Len(sub) + 1) : SubSeq(s, i, i + Len(sub) - 1) = sub

StartsWith(s, p) == Len(s) >= Len(p) /\ SubSeq(s, 1, Len(p)) = p

\* s.replace(old, new): left to right, non-overlapping (old is not empty)
RECURSIVE ReplaceAll(_, _, _)
ReplaceAll(s, old, new) ==
    IF s = <<>> THEN <<>>
    ELSE IF StartsWith(s, old)
         THEN new \o ReplaceAll(SubSeq(s, Len(old) + 1, Len(s)), old, new)
         ELSE <<Head(s)>> \o ReplaceAll(Tail(s), old, new)

RECURSIVE LStrip(_)
LStrip(s) ==
    IF s # <<>> /\ Head(s) \in Whitespace THEN LStrip(Tail(s)) ELSE s

RECURSIVE RStrip(_)
RStrip(s) ==
    IF s # <<>> /\ s[Len(s)] \in Whitespace
    THEN RStrip(SubSeq(s, 1, Len(s) - 1)) ELSE s

\* s.strip()
Strip(s) == RStrip(LStrip(s))

\* s.split(sep) for a one-character sep: always at least one piece
RECURSIVE Split(_, _)
Split(s, sep) ==
    IF \E i \in 1..Len(s) : s[i] = sep
    THEN LET i == CHOOSE k \in 1..Len(s) :
                    s[k] = sep /\ \A j \in 1..(k - 1) : s[j] # sep
         IN <<SubSeq(s, 1, i - 1)>> \o Split(SubSeq(s, i + 1, Len(s)), sep)
    ELSE <<s>>

\* sep.join(pieces)
RECURSIVE Join(_, _)
Join(pieces, sep) ==
    IF pieces = <<>> THEN <<>>
    ELSE IF Len(pieces) = 1 THEN pieces[1]
         ELSE pieces[1] \o <<sep>> \o Join(Tail(pieces), sep)

Range(s) == {s[i] : i \in 1..Len(s)}

-----------------------------------------------------------------------------
(* Literal texts of connection.py *)

T_OK == <<"O","K">>
T_ERROR == <<"E","R","R","O","R">>
T_ATZ == <<"A","T","Z">>
T_0100 == <<"0","1","0","0">>

\* class Protocol: the enum's values
ProtocolValues == {"0","1","2","3","4","5","6","7","8","9","A","B","C"}

ERROR_PATTERNS ==
    << <<"U","N","A","B","L","E"," ","T","O"," ","C","O","N","N","E","C","T">>,
       <<"N","O"," ","D","A","T","A">>,
       <<"C","A","N"," ","E","R","R","O","R">>,
       <<"B","U","S"," ","I","N","I","T">>,
       <<"S","T","O","P","P","E","D">>,
       T_ERROR,
       <<"?">> >>

\* any(err in response.upper() for err in self.ERROR_PATTERNS)
HasErrorPattern(response) ==
    \E k \in 1..Len(ERROR_PATTERNS) : Contains(Upper(response), ERROR_PATTERNS[k])

-----------------------------------------------------------------------------
(* The adapter: the byte strings the read loop of one exchange may accumulate *)

\* timeout, no byte arrived
RxNothing == <<>>
RxOk == <<"O","K",CR,CR,">">>
\* answer to ATZ
RxBanner == <<CR,CR,"E","L","M","3","2","7"," ","v","1",".","5",CR,CR,">">>
\* ATZ echoed before echo is switched off
RxEchoBanner == <<"A","T","Z",CR,CR,CR,"E","L","M","3","2","7"," ","v","1",".","5",CR,CR,">">>
\* unknown-command marker
RxUnknown == <<"?",CR,CR,">">>
RxNoData == <<"N","O"," ","D","A","T","A",CR,CR,">">>
RxCanError == <<"C","A","N"," ","E","R","R","O","R",CR,CR,">">>
RxStopped == <<"S","T","O","P","P","E","D",CR,CR,">">>
RxBusInit == <<"B","U","S"," ","I","N","I","T",":"," ",".",".",".","E","R","R","O","R",CR,CR,">">>
RxSearchFail == <<"S","E","A","R","C","H","I","N","G",".",".",".",CR,"U","N","A","B","L","E"," ","T","O"," ","C","O","N","N","E","C","T",CR,CR,">">>
\* a clone answering in lower case
RxLower == <<"n","o"," ","d","a","t","a",CR,">">>
\* one ECU answers 0100, headers on, spaces off
RxPids == <<"7","E","8","0","6","4","1","0","0","B","E","3","F","A","8","1","3",CR,CR,">">>
\* two ECUs answer 0100
RxPids2 == <<"7","E","8","0","6","4","1","0","0","B","E","3","F","A","8","1","3",CR,"7","E","9","0","6","4","1","0","0","9","8","3","A","8","0","1","3",CR,CR,">">>
\* command echoed, then the answer
RxEchoPids == <<"0","1","0","0",CR,"7","E","8","0","6","4","1","0","0","B","E","3","F","A","8","1","3",CR,CR,">">>
\* 010C answered with the 3-digit CAN identifier
RxRpmCan == <<"7","E","8","0","4","4","1","0","C","1","A","F","8",CR,CR,">">>
\* 010C answered without identifier
RxRpm == <<"0","4","4","1","0","C","1","A","F","8",CR,CR,">">>
\* 010C answered with one data byte
RxRpmShort == <<"0","3","4","1","0","C","1","A",CR,CR,">">>
\* 22F406 answered with one data byte
RxDid1 == <<"0","4","6","2","F","4","0","6","1","2",CR,CR,">">>
\* 22F406 answered with two data bytes
RxDid2 == <<"0","5","6","2","F","4","0","6","1","2","3","4",CR,CR,">">>
\* negative response to service 22
RxNegative == <<"0","3","7","F","2","2","3","1",CR,CR,">">>
\* timeout in the middle of a frame, no prompt
RxPartial == <<"7","E","8","0","6","4","1">>
\* a byte outside ASCII before the answer
RxNoise == <<NonAscii,"O","K",CR,">">>

Received ==
    {RxNothing, RxOk, RxBanner, RxEchoBanner, RxUnknown,
     RxNoData, RxCanError, RxStopped, RxBusInit, RxSearchFail,
     RxLower, RxPids, RxPids2, RxEchoPids, RxRpmCan,
     RxRpm, RxRpmShort, RxDid1, RxDid2, RxNegative,
     RxPartial, RxNoise}

\* the prompt alone: an empty response
RxPrompt == <<CR,">">>
\* negative responses to service 22 with other sub-codes
RxNegative14 == <<"0","3","7","F","2","2","1","4",CR,CR,">">>
RxNegative33 == <<"0","3","7","F","2","2","3","3",CR,CR,">">>
RxNegative12 == <<"0","3","7","F","2","2","1","2",CR,CR,">">>
RxNegative78 == <<"0","3","7","F","2","2","7","8",CR,CR,">">>

\* 0199 answered with one data byte; 221234 answered with one and with two
RxPid99 == <<"0","3","4","1","9","9","1","2",CR,CR,">">>
RxDid1234 == <<"0","4","6","2","1","2","3","4","1","2",CR,CR,">">>
RxDid1234Two == <<"0","5","6","2","1","2","3","4","1","2","5","6",CR,CR,">">>
\* a positive answer to 22F406 whose payload is the bytes 7F 22
RxDid7F22 == <<"0","5","6","2","F","4","0","6","7","F","2","2",CR,CR,">">>

\* what read_pid and read_vag_did may receive
ReadReceived ==
    Received \cup {RxPrompt, RxNegative14, RxNegative33, RxNegative12,
                   RxNegative78, RxPid99, RxDid1234, RxDid1234Two,
                   RxDid7F22}

\* answers to 03: no code stored; two codes; a padding record before two
\* codes; more records than the declared count; a byte after the last whole
\* record; the header byte alone
RxDtcNone == <<"4","3","0","0",CR,CR,">">>
RxDtc2 == <<"4","3","0","2","0","1","7","1","4","1","7","1",CR,CR,">">>
RxDtcPad == <<"4","3","0","2","0","0","0","0","0","1","7","1","8","1","A","3",CR,CR,">">>
RxDtcMore == <<"4","3","0","1","0","1","7","1","4","1","7","1","0","0","0","0",CR,CR,">">>
RxDtcShort == <<"4","3","0","2","0","1","7","1","4","1",CR,CR,">">>
RxDtcHeader == <<"4","3",CR,CR,">">>

\* what read_dtcs may receive
DtcReceived ==
    {RxNothing, RxNoData, RxOk, RxPids, RxDtcNone, RxDtc2, RxDtcPad,
     RxDtcMore, RxDtcShort, RxDtcHeader}

\* answers to 1003: the positive response, a negative response
RxSessionOk == <<"0","6","5","0","0","3","0","0","3","2","0","1","F","4",CR,CR,">">>
RxSessionNeg == <<"0","3","7","F","1","0","1","2",CR,CR,">">>

\* what enter_extended_session may receive
SessionReceived ==
    {RxNothing, RxNoData, RxUnknown, RxOk, RxPids, RxSessionOk, RxSessionNeg}

\* answers to a supported-PID request: a mask whose last bit asks for the
\* next block; a mask whose last bit is clear; a mask of three bytes
RxMaskMore == <<"0","6","4","1","0","0","8","0","0","0","0","0","0","1",CR,CR,">">>
RxMaskLast == <<"0","6","4","1","0","0","8","0","0","0","0","0","0","0",CR,CR,">">>
RxMaskShort == <<"0","5","4","1","0","0","8","0","0","0","0","0",CR,CR,">">>

\* what scan_supported_pids may receive
ScanReceived ==
    {RxNothing, RxNoData, RxPids, RxMaskMore, RxMaskLast, RxMaskShort}

\* every byte string of the model
Replies ==
    Received \cup ReadReceived \cup DtcReceived \cup SessionReceived
        \cup ScanReceived

-----------------------------------------------------------------------------
(* ELM327Connection *)

\* the property `connected`
\* a variant of `connected` that trusts the channel alone
connected_ChannelOnly == _serial # 0 /\ _serial \in isOpen

connected == _connected /\ _serial # 0 /\ _serial \in isOpen

\* response.decode("ascii", errors="ignore")
DecodeAscii(bytes) == SelectSeq(bytes, LAMBDA c : c # NonAscii)

\* The text clean-up of _read_until_prompt, applied to the bytes the read loop
\* accumulated (rx): everything up to the chunk holding the prompt, or whatever
\* had arrived when the 2 s timeout elapsed.
_read_until_prompt(rx) ==
    LET text0 == DecodeAscii(rx)
        text1 == ReplaceAll(ReplaceAll(text0, <<CR>>, <<LF>>), <<LF, LF>>, <<LF>>)
        text2 == Strip(ReplaceAll(text1, <<">">>, <<>>))
        lines == Split(text2, LF)
    IN  IF Len(lines) > 1 THEN Strip(Join(Tail(lines), LF)) ELSE text2

\* the table [rx \in S |-> _read_until_prompt(rx)], built entry by entry so
\* that it is computed once; the other tables below are built the same way
RECURSIVE ReadTableOf(_)
ReadTableOf(S) ==
    IF S = {} THEN <<>>
    ELSE LET rx == CHOOSE y \in S : TRUE
         IN  (rx :> _read_until_prompt(rx)) @@ ReadTableOf(S \ {rx})
ReadTable == ReadTableOf(Replies)

\* send_raw(command): what it returns or raises and what it writes, given the
\* bytes the adapter delivers (rx) and whether the write raises.
send_raw(command, rx, writeFails) ==
    IF ~connected
    THEN [kind |-> "raise", value |-> "RuntimeError", written |-> <<>>]
    ELSE IF writeFails
         THEN [kind |-> "raise", value |-> "SerialException", written |-> <<>>]
         ELSE [kind |-> "ok", value |-> ReadTable[rx],
               written |-> <<command \o <<CR>>>>]

\* init_commands of initialize(protocol)
\* a variant of the configuration list with the protocol selected first
init_commands_ProtocolFirst(protocol) ==
    << <<"A","T","S","P", protocol>>,
       <<"A","T","E","0">>,
       <<"A","T","L","0">>,
       <<"A","T","S","0">>,
       <<"A","T","H","1">>,
       <<"A","T","C","A","F","0">>,
       <<"A","T","A","T","1">> >>

init_commands(protocol) ==
    << <<"A","T","E","0">>,
       <<"A","T","L","0">>,
       <<"A","T","S","0">>,
       <<"A","T","H","1">>,
       <<"A","T","C","A","F","0">>,
       <<"A","T","A","T","1">>,
       <<"A","T","S","P", protocol>> >>

\* The k-th command initialize(protocol) sends: the reset, the configuration
\* commands, the ECU test request.
InitCommand(protocol, k) ==
    IF k = 1 THEN T_ATZ
    ELSE IF k - 1 <= Len(init_commands(protocol))
         THEN init_commands(protocol)[k - 1]
         ELSE T_0100

InitLength(protocol) == Len(init_commands(protocol)) + 2

\* The loop body's test of one configuration response: TRUE when the loop
\* returns False.
ConfigFails(response) ==
    LET success == Contains(response, T_OK) \/ response = <<>>
    IN  ~success /\ Contains(Upper(response), T_ERROR)

\* a variant of the ECU test that knows two keywords only
ProbeFails_TwoKeywords(response) ==
    \/ Contains(Upper(response), ERROR_PATTERNS[1])
    \/ Contains(Upper(response), ERROR_PATTERNS[2])

\* The test of the response to the ECU test request: TRUE when initialize
\* returns False.
ProbeFails(response) == HasErrorPattern(response)

-----------------------------------------------------------------------------
(* pids.py: decode formulas.  data[1] is Python's data[0]; a value is the    *)
(* exact fraction <<numerator, denominator>> of the float the code computes. *)

decode_temperature(data) == <<data[1] - 40, 1>>
decode_percent(data) == <<data[1] * 100, 255>>
decode_percent_centered(data) == <<(data[1] - 128) * 100, 128>>
decode_rpm(data) == <<(data[1] * 256) + data[2], 4>>
decode_speed(data) == <<data[1], 1>>
decode_timing_advance(data) == <<data[1] - 128, 2>>
decode_maf(data) == <<(data[1] * 256) + data[2], 100>>
decode_fuel_rail_pressure(data) == <<((data[1] * 256) + data[2]) * 10, 1>>
decode_control_module_voltage(data) == <<(data[1] * 256) + data[2], 1000>>
decode_catalyst_temp(data) == <<((data[1] * 256) + data[2]) - 400, 10>>
decode_fuel_rate(data) == <<(data[1] * 256) + data[2], 20>>
decode_engine_torque(data) == <<data[1] - 125, 1>>
\* the catalog's lambdas, named after the identifier that carries them
lambda_0B(data) == <<data[1], 1>>
lambda_63(data) == <<(data[1] * 256) + data[2], 1>>
lambda_F406(data) == <<(data[1] * 256) + data[2], 10>>
lambda_F41F(data) == <<(data[1] * 3) - 192, 4>>

\* the highest byte a formula indexes: fewer bytes raise IndexError
FormulaWidth(formula) ==
    IF formula \in {"decode_rpm", "decode_maf", "decode_fuel_rail_pressure",
                    "decode_control_module_voltage", "decode_catalyst_temp",
                    "decode_fuel_rate", "lambda_63", "lambda_F406"}
    THEN 2 ELSE 1

\* self.formula(data_bytes), for data_bytes the formula can index
ApplyFormula(formula, data) ==
    CASE formula = "decode_temperature" -> decode_temperature(data)
      [] formula = "decode_percent" -> decode_percent(data)
      [] formula = "decode_percent_centered" -> decode_percent_centered(data)
      [] formula = "decode_rpm" -> decode_rpm(data)
      [] formula = "decode_speed" -> decode_speed(data)
      [] formula = "decode_timing_advance" -> decode_timing_advance(data)
      [] formula = "decode_maf" -> decode_maf(data)
      [] formula = "decode_fuel_rail_pressure" -> decode_fuel_rail_pressure(data)
      [] formula = "decode_control_module_voltage" ->
             decode_control_module_voltage(data)
      [] formula = "decode_catalyst_temp" -> decode_catalyst_temp(data)
      [] formula = "decode_fuel_rate" -> decode_fuel_rate(data)
      [] formula = "decode_engine_torque" -> decode_engine_torque(data)
      [] formula = "lambda_0B" -> lambda_0B(data)
      [] formula = "lambda_63" -> lambda_63(data)
      [] formula = "lambda_F406" -> lambda_F406(data)
      [] formula = "lambda_F41F" -> lambda_F41F(data)

(* pids.py: the catalog.  Of a definition the model keeps the unit, the      *)
(* service, the byte width, the range and the formula ("none" is None).      *)

PIDDefinition(unit, bytes_returned, min_value, max_value, formula) ==
    [unit |-> unit, service |-> 1, bytes_returned |-> bytes_returned,
     min_value |-> min_value, max_value |-> max_value, formula |-> formula]

VAGDIDDefinition(unit, bytes_returned, formula) ==
    [unit |-> unit, bytes_returned |-> bytes_returned, formula |-> formula]

STANDARD_PIDS ==
    4 :> PIDDefinition("%", 1, Just(<<0, 1>>), Just(<<100, 1>>), "decode_percent") @@
    5 :> PIDDefinition("degC", 1, Just(<<-40, 1>>), Just(<<215, 1>>), "decode_temperature") @@
    6 :> PIDDefinition("%", 1, Just(<<-100, 1>>), Just(<<992, 10>>), "decode_percent_centered") @@
    7 :> PIDDefinition("%", 1, Just(<<-100, 1>>), Just(<<992, 10>>), "decode_percent_centered") @@
    11 :> PIDDefinition("kPa", 1, Just(<<0, 1>>), Just(<<255, 1>>), "lambda_0B") @@
    12 :> PIDDefinition("rpm", 2, Just(<<0, 1>>), Just(<<1638375, 100>>), "decode_rpm") @@
    13 :> PIDDefinition("km/h", 1, Just(<<0, 1>>), Just(<<255, 1>>), "decode_speed") @@
    14 :> PIDDefinition("deg", 1, Just(<<-64, 1>>), Just(<<635, 10>>), "decode_timing_advance") @@
    15 :> PIDDefinition("degC", 1, Just(<<-40, 1>>), Just(<<215, 1>>), "decode_temperature") @@
    16 :> PIDDefinition("g/s", 2, Just(<<0, 1>>), Just(<<65535, 100>>), "decode_maf") @@
    17 :> PIDDefinition("%", 1, Just(<<0, 1>>), Just(<<100, 1>>), "decode_percent") @@
    35 :> PIDDefinition("kPa", 2, Just(<<0, 1>>), Just(<<655350, 1>>), "decode_fuel_rail_pressure") @@
    47 :> PIDDefinition("%", 1, Just(<<0, 1>>), Just(<<100, 1>>), "decode_percent") @@
    60 :> PIDDefinition("degC", 2, Just(<<-40, 1>>), Just(<<65135, 10>>), "decode_catalyst_temp") @@
    61 :> PIDDefinition("degC", 2, Just(<<-40, 1>>), Just(<<65135, 10>>), "decode_catalyst_temp") @@
    62 :> PIDDefinition("degC", 2, Just(<<-40, 1>>), Just(<<65135, 10>>), "decode_catalyst_temp") @@
    63 :> PIDDefinition("degC", 2, Just(<<-40, 1>>), Just(<<65135, 10>>), "decode_catalyst_temp") @@
    66 :> PIDDefinition("V", 2, Just(<<0, 1>>), Just(<<65535, 1000>>), "decode_control_module_voltage") @@
    70 :> PIDDefinition("degC", 1, Just(<<-40, 1>>), Just(<<215, 1>>), "decode_temperature") @@
    92 :> PIDDefinition("degC", 1, Just(<<-40, 1>>), Just(<<210, 1>>), "decode_temperature") @@
    94 :> PIDDefinition("L/h", 2, Just(<<0, 1>>), Just(<<321275, 100>>), "decode_fuel_rate") @@
    98 :> PIDDefinition("%", 1, Just(<<-125, 1>>), Just(<<130, 1>>), "decode_engine_torque") @@
    99 :> PIDDefinition("Nm", 2, Just(<<0, 1>>), Just(<<65535, 1>>), "lambda_63")

VAG_DIDS ==
    62598 :> VAGDIDDefinition("degC", 1, "decode_temperature") @@
    62478 :> VAGDIDDefinition("degC", 1, "decode_temperature") @@
    8232 :> VAGDIDDefinition("degC", 1, "decode_temperature") @@
    61833 :> VAGDIDDefinition("", 16, "none") @@
    61840 :> VAGDIDDefinition("", 17, "none") @@
    62470 :> VAGDIDDefinition("mbar", 2, "lambda_F406") @@
    62495 :> VAGDIDDefinition("deg", 1, "lambda_F41F")

\* the definition read_pid / read_vag_did make up for an unknown identifier
UnknownPID == PIDDefinition("", 1, Nothing, Nothing, "none")
UnknownDID == VAGDIDDefinition("", 2, "none")

get_pid(pid) ==
    IF pid \in DOMAIN STANDARD_PIDS THEN Just(STANDARD_PIDS[pid]) ELSE Nothing

get_vag_did(did) ==
    IF did \in DOMAIN VAG_DIDS THEN Just(VAG_DIDS[did]) ELSE Nothing

\* PIDDefinition.decode
PIDDefinition_decode(def, data_bytes) ==
    IF def.formula = "none"
    THEN IF data_bytes # <<>> THEN Just(<<data_bytes[1], 1>>) ELSE Nothing
    ELSE IF Len(data_bytes) < FormulaWidth(def.formula)
         THEN Nothing      \* IndexError, caught
         ELSE Just(ApplyFormula(def.formula, data_bytes))

\* VAGDIDDefinition.decode
VAGDIDDefinition_decode(def, data_bytes) ==
    IF def.formula = "none"
    THEN IF data_bytes # <<>> THEN Just(<<data_bytes[1], 1>>) ELSE Nothing
    ELSE IF Len(data_bytes) < FormulaWidth(def.formula)
         THEN Nothing      \* IndexError, caught
         ELSE Just(ApplyFormula(def.formula, data_bytes))

\* PIDDefinition.get_command and VAGDIDDefinition.get_command
PID_get_command(def, pid) == Hex2(def.service) \o Hex2(pid)
DID_get_command(did) == <<"2", "2">> \o Hex4(did)

-----------------------------------------------------------------------------
(* connection.py: send_obd_command *)

\* a variant of the response clean-up without the error-keyword test
CleanObdResponse_NoKeywords(response) ==
    LET cleaned == SelectSeq(response, LAMBDA c : IsHexChar(c) \/ c = LF)
    IN  IF cleaned # <<>> THEN Just(cleaned) ELSE Nothing

\* what send_obd_command makes of the text send_raw returned
CleanObdResponse(response) ==
    IF HasErrorPattern(response) THEN Nothing
    ELSE LET cleaned == SelectSeq(response, LAMBDA c : IsHexChar(c) \/ c = LF)
         IN  IF cleaned # <<>> THEN Just(cleaned) ELSE Nothing

\* CleanObdResponse of _read_until_prompt on each byte string, computed once
RECURSIVE ObdTableOf(_)
ObdTableOf(S) ==
    IF S = {} THEN <<>>
    ELSE LET rx == CHOOSE y \in S : TRUE
         IN  (rx :> CleanObdResponse(ReadTable[rx])) @@ ObdTableOf(S \ {rx})
ObdTable == ObdTableOf(Replies)

send_obd_command(command, rx, writeFails) ==
    LET o == send_raw(command, rx, writeFails)
    IN  IF o.kind = "raise" THEN o
        ELSE [kind |-> "ok", value |-> ObdTable[rx], written |-> o.written]

-----------------------------------------------------------------------------
(* reader.py: the frame parser *)

_parse_hex_response(response) ==
    LET clean == SelectSeq(response, IsHexChar)
    IN  [k \in 1..(Len(clean) \div 2) |->
            (HexVal(clean[(2 * k) - 1]) * 16) + HexVal(clean[2 * k])]

\* the index of the first byte equal to b, 0 when there is none
FirstIndex(bytes_list, b) ==
    IF b \in Range(bytes_list)
    THEN CHOOSE i \in 1..Len(bytes_list) :
            bytes_list[i] = b /\ \A j \in 1..(i - 1) : bytes_list[j] # b
    ELSE 0

H41 == 65    \* 0x41, the response header of service 0x01
H62 == 98    \* 0x62, the response header of service 0x22

\* a variant that takes every identifier to be one byte long
AfterHeader_OneByteId(bytes_list, i, expected_header) ==
    SubSeq(bytes_list, i + 2, Len(bytes_list))

\* the bytes after the header at (1-based) index i and the echoed identifier
AfterHeader(bytes_list, i, expected_header) ==
    IF expected_header = H62
    THEN SubSeq(bytes_list, i + 3, Len(bytes_list))
    ELSE SubSeq(bytes_list, i + 2, Len(bytes_list))

\* a variant of the loop that gives up at the first line it cannot use
ExtractLines_FirstLineOnly(lines, expected_header) ==
    IF lines = <<>> THEN Nothing
    ELSE LET bytes_list == _parse_hex_response(Strip(Head(lines)))
             i == FirstIndex(bytes_list, expected_header)
         IN  IF Len(bytes_list) >= 4 /\ i > 0
             THEN Just(AfterHeader(bytes_list, i, expected_header))
             ELSE Nothing

\* the loop of _extract_data_bytes over the lines
RECURSIVE ExtractLines(_, _)
ExtractLines(lines, expected_header) ==
    IF lines = <<>> THEN Nothing
    ELSE LET bytes_list == _parse_hex_response(Strip(Head(lines)))
             i == FirstIndex(bytes_list, expected_header)
         IN  IF Len(bytes_list) >= 4 /\ i > 0
             THEN Just(AfterHeader(bytes_list, i, expected_header))
             ELSE ExtractLines(Tail(lines), expected_header)

_extract_data_bytes(response, expected_header) ==
    IF response = <<>> THEN Nothing
    ELSE ExtractLines(Split(response, LF), expected_header)

-----------------------------------------------------------------------------
(* reader.py: Reading, read_pid, read_vag_did.  Of a Reading the model keeps *)
(* value, unit, raw_hex and error.                                           *)

Reading(value, unit, raw_hex, error) ==
    [value |-> value, unit |-> unit, raw_hex |-> raw_hex, error |-> error]

\* a variant that refuses an identifier the catalog does not hold
PidReading_UnknownIsError(pid, response) ==
    LET found == get_pid(pid)
        pid_def == IF IsJust(found) THEN FromJust(found) ELSE UnknownPID
    IN  IF response = Nothing \/ found = Nothing
        THEN Reading(Nothing, pid_def.unit, <<>>, Just("No response from ECU"))
        ELSE LET raw == FromJust(response)
                 data_bytes == _extract_data_bytes(raw, H41)
             IN  IF data_bytes = Nothing
                    \/ Len(FromJust(data_bytes)) < pid_def.bytes_returned
                 THEN Reading(Nothing, pid_def.unit, raw,
                              Just("Invalid response format"))
                 ELSE Reading(PIDDefinition_decode(pid_def, FromJust(data_bytes)),
                              pid_def.unit, raw, Nothing)

\* read_pid after send_obd_command has returned `response`
PidReading(pid, response) ==
    LET found == get_pid(pid)
        pid_def == IF IsJust(found) THEN FromJust(found) ELSE UnknownPID
    IN  IF response = Nothing
        THEN Reading(Nothing, pid_def.unit, <<>>, Just("No response from ECU"))
        ELSE LET raw == FromJust(response)
                 data_bytes == _extract_data_bytes(raw, H41)
             IN  IF data_bytes = Nothing
                    \/ Len(FromJust(data_bytes)) < pid_def.bytes_returned
                 THEN Reading(Nothing, pid_def.unit, raw,
                              Just("Invalid response format"))
                 ELSE Reading(PIDDefinition_decode(pid_def, FromJust(data_bytes)),
                              pid_def.unit, raw, Nothing)

T_7F22 == <<"7","F","2","2">>

\* a variant of the message table that knows the out-of-range sub-code only
NegativeResponseError_OneCode(raw) ==
    IF Contains(raw, T_7F22 \o <<"3","1">>) THEN "Request out of range"
    ELSE "Unknown error"

\* the message read_vag_did picks for a negative response
NegativeResponseError(raw) ==
    IF Contains(raw, T_7F22 \o <<"3","1">>) THEN "Request out of range"
    ELSE IF Contains(raw, T_7F22 \o <<"1","4">>) THEN "Response too long"
    ELSE IF Contains(raw, T_7F22 \o <<"3","3">>) THEN "Security access denied"
    ELSE IF Contains(raw, T_7F22 \o <<"1","2">>) THEN "Sub-function not supported"
    ELSE "Unknown error"

\* read_vag_did after send_obd_command has returned `response`
DidReading(did, response) ==
    LET found == get_vag_did(did)
        did_def == IF IsJust(found) THEN FromJust(found) ELSE UnknownDID
    IN  IF response = Nothing
        THEN Reading(Nothing, did_def.unit, <<>>, Just("No response from ECU"))
        ELSE LET raw == FromJust(response)
                 data_bytes == _extract_data_bytes(raw, H62)
             IN  IF Contains(raw, T_7F22)
                 THEN Reading(Nothing, did_def.unit, raw,
                              Just(NegativeResponseError(raw)))
                 ELSE IF data_bytes = Nothing \/ Len(FromJust(data_bytes)) < 1
                      THEN Reading(Nothing, did_def.unit, raw,
                                   Just("Invalid response format"))
                      ELSE Reading(VAGDIDDefinition_decode(did_def,
                                                           FromJust(data_bytes)),
                                   did_def.unit, raw, Nothing)

-----------------------------------------------------------------------------
(* reader.py: enter_extended_session and read_dtcs *)

T_1003 == <<"1","0","0","3">>
T_03 == <<"0","3">>
T_50 == <<"5","0">>

\* a variant of the session test that accepts any response
SessionConfirmed_AnyResponse(response) == response # Nothing

\* enter_extended_session after send_obd_command has returned `response`
SessionConfirmed(response) ==
    response # Nothing /\ Contains(FromJust(response), T_50)

H43 == 67    \* 0x43, the response header of service 0x03

DtcLetters == <<"P", "C", "B", "U">>

\* a variant that keeps the type bits in the number
DtcCode_NoMask(byte1, byte2) ==
    <<DtcLetters[((byte1 \div 64) % 4) + 1]>> \o Hex4((byte1 * 256) + byte2)

\* dtc_type and dtc_code of one record
DtcCode(byte1, byte2) ==
    <<DtcLetters[((byte1 \div 64) % 4) + 1]>>
        \o Hex4(((byte1 % 64) * 256) + byte2)

\* the while loop of read_dtcs; idx counts from 0 as in the code
RECURSIVE DtcLoop(_, _, _, _)
DtcLoop(data_bytes, idx, dtc_count, dtcs) ==
    IF idx + 1 < Len(data_bytes) /\ Len(dtcs) < dtc_count
    THEN LET byte1 == data_bytes[idx + 1]
             byte2 == data_bytes[idx + 2]
         IN  IF byte1 = 0 /\ byte2 = 0
             THEN DtcLoop(data_bytes, idx + 2, dtc_count, dtcs)
             ELSE DtcLoop(data_bytes, idx + 2, dtc_count,
                          Append(dtcs, DtcCode(byte1, byte2)))
    ELSE dtcs

\* a variant of read_dtcs that decodes every record whatever the count
DtcList_IgnoresCount(response) ==
    IF response = Nothing THEN <<>>
    ELSE LET data_bytes == _parse_hex_response(FromJust(response))
             start_idx == FirstIndex(data_bytes, H43)
         IN  IF start_idx = 0 THEN <<>>
             ELSE DtcLoop(data_bytes, start_idx + 1, Len(data_bytes), <<>>)

\* read_dtcs after send_obd_command has returned `response`
DtcList(response) ==
    IF response = Nothing THEN <<>>
    ELSE LET data_bytes == _parse_hex_response(FromJust(response))
             \* data_bytes.index(0x43) + 1, 0-based; FirstIndex is 1-based
             start_idx == FirstIndex(data_bytes, H43)
         IN  IF start_idx = 0 THEN <<>>      \* ValueError, caught
             ELSE LET dtc_count == IF start_idx < Len(data_bytes)
                                   THEN data_bytes[start_idx + 1] ELSE 0
                  IN  IF dtc_count = 0 THEN <<>>
                      ELSE DtcLoop(data_bytes, start_idx + 1, dtc_count, <<>>)

-----------------------------------------------------------------------------
(* Bounds and input sets *)

\* how many channels the environment lets serial.Serial() open in one run
MaxChannels == 2

\* the protocol arguments initialize() is called with
Protocols == {"0", "6"}

\* the commands send_raw() is called with directly
RawCommands == {T_0100}

\* the identifiers read_pid() is called with: engine speed (two bytes),
\* coolant temperature (one byte), and 0x99, which the catalog does not hold
PidInputs == {12, 5, 153}

\* the identifiers read_vag_did() is called with: boost pressure (two bytes),
\* oil temperature (one byte), and 0x1234, which the catalog does not hold
DidInputs == {62470, 62598, 4660}

\* the texts _extract_data_bytes() is applied to directly
TextRpmCanId == <<"7","E","8"," ","0","4"," ","4","1"," ","0","C"," ","1","A"," ","F","8">>
TextRpmPlain == <<"0","4"," ","4","1"," ","0","C"," ","1","A"," ","F","8">>
TextTwoLines == <<"O","K",LF,"0","4","4","1","0","C","1","A","F","8">>
TextDid == <<"0","5","6","2","F","4","0","6","1","2","3","4">>
ExtractTexts == {<<>>, TextRpmCanId, TextRpmPlain, TextTwoLines, TextDid}

\* _extract_data_bytes on each text and header, computed once
RECURSIVE ExtractTableOf(_)
ExtractTableOf(S) ==
    IF S = {} THEN <<>>
    ELSE LET a == CHOOSE y \in S : TRUE
         IN  (a :> _extract_data_bytes(a[1], a[2])) @@ ExtractTableOf(S \ {a})
ExtractTable == ExtractTableOf(ExtractTexts \X {H41, H62})

\* PidReading and DidReading on each identifier and byte string, computed once
RECURSIVE PidTableOf(_)
PidTableOf(S) ==
    IF S = {} THEN <<>>
    ELSE LET a == CHOOSE y \in S : TRUE
         IN  (a :> PidReading(a[1], ObdTable[a[2]])) @@ PidTableOf(S \ {a})
PidTable == PidTableOf(PidInputs \X ReadReceived)
RECURSIVE DidTableOf(_)
DidTableOf(S) ==
    IF S = {} THEN <<>>
    ELSE LET a == CHOOSE y \in S : TRUE
         IN  (a :> DidReading(a[1], ObdTable[a[2]])) @@ DidTableOf(S \ {a})
DidTable == DidTableOf(DidInputs \X ReadReceived)

\* DtcList and SessionConfirmed on each byte string, computed once
RECURSIVE DtcTableOf(_)
DtcTableOf(S) ==
    IF S = {} THEN <<>>
    ELSE LET rx == CHOOSE y \in S : TRUE
         IN  (rx :> DtcList(ObdTable[rx])) @@ DtcTableOf(S \ {rx})
DtcTable == DtcTableOf(DtcReceived)
RECURSIVE SessionTableOf(_)
SessionTableOf(S) ==
    IF S = {} THEN <<>>
    ELSE LET rx == CHOOSE y \in S : TRUE
         IN  (rx :> SessionConfirmed(ObdTable[rx])) @@ SessionTableOf(S \ {rx})
SessionTable == SessionTableOf(SessionReceived)

\* one exchange with the adapter: either the write raises, and then nothing is
\* read, or the read loop accumulates one of the byte strings of Received
Exchange(rx, writeFails) == writeFails => rx = RxNothing

-----------------------------------------------------------------------------
(* State after ELM327Connection.__init__ *)

NoResult == [op |-> "none", arg |-> <<>>, kind |-> "ok", value |-> <<>>]

Init ==
    /\ _serial = 0
    /\ _connected = FALSE
    /\ _protocol = Nothing
    /\ isOpen = {}
    /\ opened = 0
    /\ pc = "idle"
    /\ initArg = "6"
    /\ tx = <<>>
    /\ lastRx = Nothing
    /\ lastResp = Nothing
    /\ result = NoResult
    /\ life = "never"
    /\ _supported_pids = {}
    /\ _supported_dids = {}
    /\ in_buffer = <<>>
    /\ accumulated = <<>>
    /\ clock = 0
    /\ trace = <<>>

-----------------------------------------------------------------------------
(* connect() *)

\* the assignment to _serial drops the only reference to the channel of an
\* earlier connect: nothing in connect() closes it, and whether the runtime
\* finalizes the dropped object is not decided by this code
ConnectOpens ==
    /\ opened < MaxChannels
    /\ opened' = opened + 1
    /\ _serial' = opened + 1
    /\ \E finalized \in BOOLEAN :
           isOpen' = (IF finalized THEN isOpen \ {_serial} ELSE isOpen)
                         \cup {opened + 1}
    /\ _connected' = TRUE
    /\ life' = "connected"

ConnectFails ==
    /\ _connected' = FALSE
    /\ life' = "connect_failed"
    /\ UNCHANGED <<_serial, isOpen, opened>>

connect(openFails) ==
    /\ pc = "idle"
    /\ IF openFails THEN ConnectFails ELSE ConnectOpens
    /\ tx' = <<>>
    /\ lastRx' = Nothing
    /\ lastResp' = Nothing
    /\ result' = [op |-> "connect", arg |-> <<>>, kind |-> "ok",
                  value |-> ~openFails]
    \* a channel just opened has nothing buffered
    /\ in_buffer' = IF openFails THEN in_buffer ELSE <<>>
    /\ accumulated' = <<>>
    /\ clock' = 0
    /\ trace' = <<>>
    /\ UNCHANGED <<_protocol, pc, initArg, readerVars>>

(* disconnect(); __exit__ calls it and does nothing else *)

\* a variant of the close without the finally clause
DisconnectCloses_NoFinally(closeFails) ==
    IF closeFails
    THEN UNCHANGED <<_serial, _connected, isOpen>>
    ELSE /\ isOpen' = isOpen \ {_serial}
         /\ _serial' = 0
         /\ _connected' = FALSE

DisconnectCloses(closeFails) ==
    /\ isOpen' = IF closeFails THEN isOpen ELSE isOpen \ {_serial}
    /\ _serial' = 0
    /\ _connected' = FALSE

disconnect(closeFails) ==
    /\ pc = "idle"
    /\ IF _serial # 0
       THEN DisconnectCloses(closeFails)
       ELSE UNCHANGED <<_serial, _connected, isOpen>>
    /\ life' = "disconnected"
    /\ tx' = <<>>
    /\ lastRx' = Nothing
    /\ lastResp' = Nothing
    \* value: whether close() raised (the exception is logged and dropped)
    /\ result' = [op |-> "disconnect", arg |-> <<>>, kind |-> "ok",
                  value |-> (_serial # 0 /\ closeFails)]
    /\ in_buffer' = <<>>
    /\ accumulated' = <<>>
    /\ clock' = 0
    /\ trace' = <<>>
    /\ UNCHANGED <<_protocol, opened, pc, initArg, readerVars>>

(* a direct call of send_raw(command) *)

SendRaw(command, rx, writeFails) ==
    /\ pc = "idle"
    /\ LET o == send_raw(command, rx, writeFails)
       IN  /\ tx' = o.written
           /\ lastRx' = IF o.kind = "ok" THEN Just(rx) ELSE Nothing
           /\ lastResp' = IF o.kind = "ok" THEN Just(o.value) ELSE Nothing
           /\ result' = [op |-> "send_raw", arg |-> command, kind |-> o.kind,
                         value |-> o.value]
    /\ UNCHANGED <<_serial, _connected, _protocol, isOpen, opened, pc,
                   initArg, life, readerVars, channelVars>>

(* initialize(protocol): the call, then one step per command it sends *)

InitRaises(protocol) ==
    /\ result' = [op |-> "initialize", arg |-> protocol, kind |-> "raise",
                  value |-> "RuntimeError"]
    /\ UNCHANGED <<pc, initArg>>

InitStarts(protocol) ==
    /\ pc' = "init"
    /\ initArg' = protocol
    /\ result' = [op |-> "initialize", arg |-> protocol, kind |-> "running",
                  value |-> <<>>]

initialize(protocol) ==
    /\ pc = "idle"
    /\ IF connected THEN InitStarts(protocol) ELSE InitRaises(protocol)
    /\ tx' = <<>>
    /\ lastRx' = Nothing
    /\ lastResp' = Nothing
    /\ UNCHANGED <<_serial, _connected, _protocol, isOpen, opened, life,
                   readerVars, channelVars>>

\* ConfigFails of _read_until_prompt on each byte string, computed once
RECURSIVE ConfigFailsTableOf(_)
ConfigFailsTableOf(S) ==
    IF S = {} THEN <<>>
    ELSE LET rx == CHOOSE y \in S : TRUE
         IN  (rx :> ConfigFails(ReadTable[rx])) @@ ConfigFailsTableOf(S \ {rx})
ConfigFailsTable == ConfigFailsTableOf(Received)

\* ProbeFails of _read_until_prompt on each byte string, computed once
RECURSIVE ProbeFailsTableOf(_)
ProbeFailsTableOf(S) ==
    IF S = {} THEN <<>>
    ELSE LET rx == CHOOSE y \in S : TRUE
         IN  (rx :> ProbeFails(ReadTable[rx])) @@ ProbeFailsTableOf(S \ {rx})
ProbeFailsTable == ProbeFailsTableOf(Received)

\* what initialize() does with the response to its k-th command, read from
\* the bytes rx: "continue" with the next command, or return
InitVerdict(protocol, k, rx) ==
    IF k = 1 THEN "continue"
    ELSE IF k < InitLength(protocol)
         THEN IF ConfigFailsTable[rx] THEN "false" ELSE "continue"
         ELSE IF ProbeFailsTable[rx] THEN "false" ELSE "true"

InitReturns(value) ==
    /\ pc' = "idle"
    /\ result' = [op |-> "initialize", arg |-> initArg, kind |-> "ok",
                  value |-> value]

InitSendRaises(o) ==
    /\ pc' = "idle"
    /\ result' = [op |-> "initialize", arg |-> initArg, kind |-> "raise",
                  value |-> o.value]
    /\ UNCHANGED <<tx, lastRx, lastResp, _protocol>>

InitSendReturns(k, rx, o) ==
    LET verdict == InitVerdict(initArg, k, rx)
    IN  /\ tx' = tx \o o.written
        /\ lastRx' = Just(rx)
        /\ lastResp' = Just(o.value)
        \* self._protocol = protocol, once the configuration loop is through
        /\ _protocol' = IF k = InitLength(initArg) - 1 /\ verdict = "continue"
                        THEN Just(initArg) ELSE _protocol
        /\ IF verdict = "continue"
           THEN UNCHANGED <<pc, result>>
           ELSE InitReturns(verdict = "true")

InitializeStep(rx, writeFails) ==
    /\ pc = "init"
    /\ LET k == Len(tx) + 1
           o == send_raw(InitCommand(initArg, k), rx, writeFails)
       IN  IF o.kind = "raise" THEN InitSendRaises(o)
           ELSE InitSendReturns(k, rx, o)
    /\ UNCHANGED <<_serial, _connected, isOpen, opened, initArg, life,
                   readerVars, channelVars>>

-----------------------------------------------------------------------------
(* OBDReader *)

\* read_pid(pid)
read_pid(pid, rx, writeFails) ==
    LET found == get_pid(pid)
        pid_def == IF IsJust(found) THEN FromJust(found) ELSE UnknownPID
        o == send_obd_command(PID_get_command(pid_def, pid), rx, writeFails)
    IN  IF o.kind = "raise" THEN o
        ELSE [kind |-> "ok", value |-> PidTable[<<pid, rx>>], written |-> o.written]

\* a variant that, after a failed read, asks for the extended session and
\* sends the request again
read_vag_did_RetriesInSession(did, rx, writeFails) ==
    LET o == send_obd_command(DID_get_command(did), rx, writeFails)
        reading == DidTable[<<did, rx>>]
    IN  IF o.kind = "raise" THEN o
        ELSE [kind |-> "ok", value |-> reading,
              written |-> IF reading.error # Nothing
                          THEN o.written \o <<T_1003 \o <<CR>>>> \o o.written
                          ELSE o.written]

\* read_vag_did(did)
read_vag_did(did, rx, writeFails) ==
    LET o == send_obd_command(DID_get_command(did), rx, writeFails)
    IN  IF o.kind = "raise" THEN o
        ELSE [kind |-> "ok", value |-> DidTable[<<did, rx>>], written |-> o.written]

\* a variant that takes an unanswered request for a lost connection
ReaderCall_DropsOnNoAnswer(op, arg, rx, o) ==
    /\ pc = "idle"
    /\ tx' = o.written
    /\ lastRx' = IF o.kind = "ok" THEN Just(rx) ELSE Nothing
    /\ lastResp' = Nothing
    /\ result' = [op |-> op, arg |-> arg, kind |-> o.kind, value |-> o.value]
    /\ _connected' = IF o.kind = "ok" /\ ObdTable[rx] = Nothing
                     THEN FALSE ELSE _connected
    /\ UNCHANGED <<_serial, _protocol, isOpen, opened, pc, initArg, life,
                   readerVars, channelVars>>

\* a call of a reader method that makes one exchange and changes no field
ReaderCall(op, arg, rx, o) ==
    /\ pc = "idle"
    /\ tx' = o.written
    /\ lastRx' = IF o.kind = "ok" THEN Just(rx) ELSE Nothing
    /\ lastResp' = Nothing
    /\ result' = [op |-> op, arg |-> arg, kind |-> o.kind, value |-> o.value]
    /\ UNCHANGED <<_serial, _connected, _protocol, isOpen, opened, pc,
                   initArg, life, readerVars, channelVars>>

ReadPid(pid, rx, writeFails) ==
    ReaderCall("read_pid", pid, rx, read_pid(pid, rx, writeFails))

ReadVagDid(did, rx, writeFails) ==
    ReaderCall("read_vag_did", did, rx, read_vag_did(did, rx, writeFails))

\* a variant that confirms the session once: a call that follows a confirmed
\* one returns false
enter_extended_session_OnceOnly(rx, writeFails) ==
    LET o == send_obd_command(T_1003, rx, writeFails)
        again == /\ result.op = "enter_extended_session"
                 /\ result.kind = "ok"
                 /\ result.value
    IN  IF o.kind = "raise" THEN o
        ELSE [kind |-> "ok", value |-> SessionTable[rx] /\ ~again,
              written |-> o.written]

\* enter_extended_session()
enter_extended_session(rx, writeFails) ==
    LET o == send_obd_command(T_1003, rx, writeFails)
    IN  IF o.kind = "raise" THEN o
        ELSE [kind |-> "ok", value |-> SessionTable[rx], written |-> o.written]

\* read_dtcs()
read_dtcs(rx, writeFails) ==
    LET o == send_obd_command(T_03, rx, writeFails)
    IN  IF o.kind = "raise" THEN o
        ELSE [kind |-> "ok", value |-> DtcTable[rx], written |-> o.written]

EnterExtendedSession(rx, writeFails) ==
    ReaderCall("enter_extended_session", <<>>, rx,
               enter_extended_session(rx, writeFails))

ReadDtcs(rx, writeFails) ==
    ReaderCall("read_dtcs", <<>>, rx, read_dtcs(rx, writeFails))

\* _extract_data_bytes(response, expected_header), applied on its own
ExtractDataBytes(response, expected_header) ==
    /\ pc = "idle"
    /\ tx' = <<>>
    /\ lastRx' = Nothing
    /\ lastResp' = Nothing
    /\ result' = [op |-> "_extract_data_bytes",
                  arg |-> <<response, expected_header>>, kind |-> "ok",
                  value |-> ExtractTable[<<response, expected_header>>]]
    /\ UNCHANGED <<_serial, _connected, _protocol, isOpen, opened, pc,
                   initArg, life, readerVars, channelVars>>

-----------------------------------------------------------------------------

Next ==
    \/ \E openFails \in BOOLEAN : connect(openFails)
    \/ \E closeFails \in BOOLEAN : disconnect(closeFails)
    \/ \E command \in RawCommands, rx \in Received, writeFails \in BOOLEAN :
          Exchange(rx, writeFails) /\ SendRaw(command, rx, writeFails)
    \/ \E protocol \in Protocols : initialize(protocol)
    \/ \E rx \in Received, writeFails \in BOOLEAN :
          Exchange(rx, writeFails) /\ InitializeStep(rx, writeFails)
    \/ \E pid \in PidInputs, rx \in ReadReceived, writeFails \in BOOLEAN :
          Exchange(rx, writeFails) /\ ReadPid(pid, rx, writeFails)
    \/ \E did \in DidInputs, rx \in ReadReceived, writeFails \in BOOLEAN :
          Exchange(rx, writeFails) /\ ReadVagDid(did, rx, writeFails)
    \/ \E rx \in SessionReceived, writeFails \in BOOLEAN :
          Exchange(rx, writeFails) /\ EnterExtendedSession(rx, writeFails)
    \/ \E rx \in DtcReceived, writeFails \in BOOLEAN :
          Exchange(rx, writeFails) /\ ReadDtcs(rx, writeFails)
    \/ \E response \in ExtractTexts, expected_header \in {H41, H62} :
          ExtractDataBytes(response, expected_header)

Spec == Init /\ [][Next]_vars

-----------------------------------------------------------------------------
(* The pure functions on their own: a call is drawn in the initial state    *)
(* (result holds its name and arguments, kind "running") and one step       *)
(* applies the function.  The connection is never opened.                   *)

\* the longest payload enumerated in full
MaxPayload == 3

\* the byte values payloads are made of: the extremes and the two headers
ByteSamples == {0, 65, 98, 255}

\* payloads as long as the catalog's widest definitions (16 and 17 bytes)
LongPayloads == {[k \in 1..n |-> 49] : n \in 15..18}

Payloads ==
    UNION {[1..n -> ByteSamples] : n \in 0..MaxPayload} \cup LongPayloads

\* the catalog's definitions: <<"pid", id>> and <<"did", id>>
Definitions ==
    ({"pid"} \X DOMAIN STANDARD_PIDS) \cup ({"did"} \X DOMAIN VAG_DIDS)

DefinitionOf(d) == IF d[1] = "pid" THEN STANDARD_PIDS[d[2]] ELSE VAG_DIDS[d[2]]

\* definition.decode(data_bytes)
decode(d, data_bytes) ==
    IF d[1] = "pid"
    THEN PIDDefinition_decode(STANDARD_PIDS[d[2]], data_bytes)
    ELSE VAGDIDDefinition_decode(VAG_DIDS[d[2]], data_bytes)

\* definition.get_command()
get_command(d) ==
    IF d[1] = "pid" THEN PID_get_command(STANDARD_PIDS[d[2]], d[2])
    ELSE DID_get_command(d[2])

\* the response header of the definition's service
HeaderOf(d) == IF d[1] = "pid" THEN H41 ELSE H62

RECURSIVE HexText(_)
HexText(bytes_list) ==
    IF bytes_list = <<>> THEN <<>>
    ELSE Hex2(Head(bytes_list)) \o HexText(Tail(bytes_list))

\* the frame of the docstring of _extract_data_bytes without the CAN
\* identifier: a length byte, the response header, the identifier as
\* get_command spells it after the service, the payload
FrameText(d, payload) ==
    LET command == get_command(d)
        identifier == SubSeq(command, 3, Len(command))
    IN  Hex2(1 + (Len(identifier) \div 2) + Len(payload))
            \o Hex2(HeaderOf(d)) \o identifier \o HexText(payload)

\* a variant that counts the bits from the least-significant end
BitSet_LsbFirst(byte_val, bit_idx) == (byte_val \div (2 ^ bit_idx)) % 2 = 1

\* byte_val & (1 << (7 - bit_idx))
BitSet(byte_val, bit_idx) == (byte_val \div (2 ^ (7 - bit_idx))) % 2 = 1

\* the two for loops of scan_supported_pids over data_bytes[:4]: the
\* identifiers appended to `supported` for one anchor, in order
SupportedInMask(scan_pid, data_bytes) ==
    LET positions == [p \in 1..32 |-> p - 1]
        set == SelectSeq(positions,
                   LAMBDA p : BitSet(data_bytes[(p \div 8) + 1], p % 8))
    IN  [k \in 1..Len(set) |->
            scan_pid + ((set[k] \div 8) * 8) + (set[k] % 8) + 1]

\* the anchors of scan_supported_pids
scan_pids == <<0, 32, 64, 96, 128, 160, 192>>

\* the mask bytes tried: no bit, the lowest, the highest, all
MaskSamples == {0, 1, 128, 255}

\* the 4-byte masks tried, and the mask of a real ECU (BE 3F A8 13)
Masks == [1..4 -> MaskSamples] \cup {<<190, 63, 168, 19>>}

\* the records read_dtcs is given alone after the header and a count of 1
DtcFirstBytes == {0, 1, 63, 65, 67, 129, 193, 255}
DtcSecondBytes == {0, 113, 163, 255}

\* the most lines a response given to _extract_data_bytes has
MaxLines == 3

\* the lines those responses are made of: an empty line; three bytes with the
\* header 41; a frame of service 01; five bytes holding 41 twice and 62 last;
\* a frame of service 22; the frame of service 01 behind a CAN identifier and
\* with separators; four bytes with 41 last
LineSamples ==
    { <<>>,
      <<"4","1","0","C","1","A">>,
      <<"0","4","4","1","0","C","1","A","F","8">>,
      <<"0","6","4","1","0","0","4","1","6","2">>,
      <<"0","5","6","2","F","4","0","6","1","2","3","4">>,
      <<"7","E","8"," ","0","4"," ","4","1"," ","0","C"," ","1","A"," ","F","8">>,
      <<"0","0","0","0","0","0","4","1">> }

ResponseTexts ==
    {Join(lines, LF) : lines \in UNION {[1..n -> LineSamples] : n \in 1..MaxLines}}

CodecCall(op, arg) ==
    [op |-> op, arg |-> arg, kind |-> "running", value |-> <<>>]

InitCodec ==
    /\ _serial = 0
    /\ _connected = FALSE
    /\ _protocol = Nothing
    /\ isOpen = {}
    /\ opened = 0
    /\ pc = "idle"
    /\ initArg = "6"
    /\ tx = <<>>
    /\ lastRx = Nothing
    /\ lastResp = Nothing
    /\ life = "never"
    /\ _supported_pids = {}
    /\ _supported_dids = {}
    /\ in_buffer = <<>>
    /\ accumulated = <<>>
    /\ clock = 0
    /\ trace = <<>>
    /\ \/ \E d \in Definitions, data_bytes \in Payloads :
             result = CodecCall("decode", <<d, data_bytes>>)
       \/ \E d \in Definitions, payload \in Payloads :
             /\ Len(payload) = DefinitionOf(d).bytes_returned
             /\ result = CodecCall("round_trip", <<d, payload>>)
       \/ \E k \in 1..Len(scan_pids), mask \in Masks :
             result = CodecCall("mask", <<scan_pids[k], mask>>)
       \/ \E byte1 \in DtcFirstBytes, byte2 \in DtcSecondBytes :
             result = CodecCall("dtc", <<byte1, byte2>>)
       \/ \E text \in ResponseTexts, expected_header \in {H41, H62} :
             result = CodecCall("extract", <<text, expected_header>>)

Returns(value) ==
    /\ result.kind = "running"
    /\ result' = [result EXCEPT !.kind = "ok", !.value = value]
    /\ UNCHANGED <<_serial, _connected, _protocol, isOpen, opened, pc,
                   initArg, tx, lastRx, lastResp, life, readerVars,
                   channelVars>>

\* definition.decode(data_bytes)
Decode ==
    /\ result.op = "decode"
    /\ Returns(decode(result.arg[1], result.arg[2]))

\* the frame built from definition.get_command() and a payload, extracted
\* with the header of the definition's service
RoundTrip ==
    /\ result.op = "round_trip"
    /\ Returns(_extract_data_bytes(FrameText(result.arg[1], result.arg[2]),
                                   HeaderOf(result.arg[1])))

\* the bit loops of scan_supported_pids on one anchor and mask
ScanMask ==
    /\ result.op = "mask"
    /\ Returns(SupportedInMask(result.arg[1], result.arg[2]))

\* the record loop of read_dtcs on the response 43 01 <byte1> <byte2>
DecodeDtc ==
    /\ result.op = "dtc"
    /\ Returns(DtcList(Just(HexText(<<H43, 1, result.arg[1], result.arg[2]>>))))

\* _extract_data_bytes(response, expected_header)
Extract ==
    /\ result.op = "extract"
    /\ Returns(_extract_data_bytes(result.arg[1], result.arg[2]))

NextCodec == Decode \/ RoundTrip \/ ScanMask \/ DecodeDtc \/ Extract

SpecCodec == InitCodec /\ [][NextCodec]_vars

-----------------------------------------------------------------------------
(* scan_supported_pids(): the call, then one step per anchor it queries.    *)
(* While it runs, result.value is the list `supported` built so far.        *)

\* a variant of the loop body that breaks on a response it cannot use
ScanAnchor_BreaksOnSilence(scan_pid, response) ==
    IF response = Nothing THEN [found |-> <<>>, stop |-> TRUE]
    ELSE LET data_bytes == _extract_data_bytes(FromJust(response), H41)
         IN  IF data_bytes = Nothing \/ Len(FromJust(data_bytes)) < 4
             THEN [found |-> <<>>, stop |-> TRUE]
             ELSE [found |-> SupportedInMask(scan_pid, FromJust(data_bytes)),
                   stop |-> FromJust(data_bytes)[4] % 2 = 0]

\* the body of the anchor loop after send_obd_command has returned
\* `response`: what is appended to `supported`, and whether the loop breaks
ScanAnchor(scan_pid, response) ==
    IF response = Nothing THEN [found |-> <<>>, stop |-> FALSE]
    ELSE LET data_bytes == _extract_data_bytes(FromJust(response), H41)
         IN  IF data_bytes = Nothing \/ Len(FromJust(data_bytes)) < 4
             THEN [found |-> <<>>, stop |-> FALSE]
             ELSE [found |-> SupportedInMask(scan_pid, FromJust(data_bytes)),
                   stop |-> FromJust(data_bytes)[4] % 2 = 0]

\* ScanAnchor on each anchor and byte string, computed once
RECURSIVE ScanTableOf(_)
ScanTableOf(S) ==
    IF S = {} THEN <<>>
    ELSE LET a == CHOOSE y \in S : TRUE
         IN  (a :> ScanAnchor(a[1], ObdTable[a[2]])) @@ ScanTableOf(S \ {a})
ScanTable == ScanTableOf(Range(scan_pids) \X ScanReceived)

\* The call.  The model follows the scans of a reader that has not found an
\* identifier yet: a reader whose set is not empty scans no more.
ScanStarts ==
    /\ pc = "idle"
    /\ _supported_pids = {}
    /\ pc' = "scan"
    /\ result' = [op |-> "scan_supported_pids", arg |-> <<>>,
                  kind |-> "running", value |-> <<>>]
    /\ tx' = <<>>
    /\ lastRx' = Nothing
    /\ lastResp' = Nothing
    /\ UNCHANGED <<_serial, _connected, _protocol, isOpen, opened, initArg,
                   life, readerVars, channelVars>>

ScanSendRaises(o) ==
    /\ pc' = "idle"
    /\ result' = [result EXCEPT !.kind = "raise", !.value = o.value]
    /\ UNCHANGED <<tx, lastRx, readerVars>>

\* self._supported_pids = set(supported); return supported
ScanReturns(supported) ==
    /\ pc' = "idle"
    /\ _supported_pids' = Range(supported)
    /\ result' = [result EXCEPT !.kind = "ok", !.value = supported]
    /\ UNCHANGED _supported_dids

ScanSendReturns(k, rx, o) ==
    LET outcome == ScanTable[<<scan_pids[k], rx>>]
        supported == result.value \o outcome.found
    IN  /\ tx' = tx \o o.written
        /\ lastRx' = Just(rx)
        /\ IF outcome.stop \/ k = Len(scan_pids)
           THEN ScanReturns(supported)
           ELSE /\ result' = [result EXCEPT !.value = supported]
                /\ UNCHANGED <<pc, readerVars>>

ScanStep(rx, writeFails) ==
    /\ pc = "scan"
    /\ LET k == Len(tx) + 1
           o == send_obd_command(<<"0", "1">> \o Hex2(scan_pids[k]), rx,
                                 writeFails)
       IN  IF o.kind = "raise" THEN ScanSendRaises(o)
           ELSE ScanSendReturns(k, rx, o)
    /\ UNCHANGED <<_serial, _connected, _protocol, isOpen, opened, initArg,
                   lastResp, life, channelVars>>

NextScan ==
    \/ \E openFails \in BOOLEAN : connect(openFails)
    \/ \E closeFails \in BOOLEAN : disconnect(closeFails)
    \/ ScanStarts
    \/ \E rx \in ScanReceived, writeFails \in BOOLEAN :
          Exchange(rx, writeFails) /\ ScanStep(rx, writeFails)

SpecScan == Init /\ [][NextScan]_vars

-----------------------------------------------------------------------------
(* The session request issued by a reader that may have scanned before:     *)
(* connect, disconnect, scan_supported_pids and enter_extended_session.     *)

NextSession ==
    \/ \E openFails \in BOOLEAN : connect(openFails)
    \/ \E closeFails \in BOOLEAN : disconnect(closeFails)
    \/ ScanStarts
    \/ \E rx \in ScanReceived, writeFails \in BOOLEAN :
          Exchange(rx, writeFails) /\ ScanStep(rx, writeFails)
    \/ \E rx \in SessionReceived, writeFails \in BOOLEAN :
          Exchange(rx, writeFails) /\ EnterExtendedSession(rx, writeFails)

SpecSession == Init /\ [][NextSession]_vars

-----------------------------------------------------------------------------
(* The calls of the reader answered with the adapter's error keywords, or   *)
(* with one answer that holds data.                                         *)

\* the adapter's answers that hold an error keyword
ErrorReceived ==
    {RxUnknown, RxNoData, RxCanError, RxStopped, RxBusInit, RxSearchFail}

NextNegative ==
    \/ \E openFails \in BOOLEAN : connect(openFails)
    \/ \E closeFails \in BOOLEAN : disconnect(closeFails)
    \/ \E command \in RawCommands, rx \in {RxNoData, RxPids},
            writeFails \in BOOLEAN :
          Exchange(rx, writeFails) /\ SendRaw(command, rx, writeFails)
    \/ \E pid \in PidInputs, rx \in ErrorReceived \cup {RxRpm},
            writeFails \in BOOLEAN :
          Exchange(rx, writeFails) /\ ReadPid(pid, rx, writeFails)
    \/ \E did \in DidInputs, rx \in ErrorReceived \cup {RxDid2},
            writeFails \in BOOLEAN :
          Exchange(rx, writeFails) /\ ReadVagDid(did, rx, writeFails)
    \/ \E rx \in {RxUnknown, RxNoData, RxSessionOk}, writeFails \in BOOLEAN :
          Exchange(rx, writeFails) /\ EnterExtendedSession(rx, writeFails)
    \/ \E rx \in {RxNoData, RxDtc2}, writeFails \in BOOLEAN :
          Exchange(rx, writeFails) /\ ReadDtcs(rx, writeFails)
    \/ ScanStarts
    \/ \E rx \in {RxNoData, RxMaskLast}, writeFails \in BOOLEAN :
          Exchange(rx, writeFails) /\ ScanStep(rx, writeFails)

SpecNegative == Init /\ [][NextNegative]_vars

-----------------------------------------------------------------------------
(* send_raw followed step by step: the call, reset_input_buffer, write, then  *)
(* the loop of _read_until_prompt, while the adapter delivers bytes into the  *)
(* input buffer and time passes.  A buffered byte is [c, stale]: c is the     *)
(* character, and stale marks the bytes that were in the buffer when send_raw *)
(* was called.  An entry of trace is <<what, how many bytes>>.                *)

\* how many bytes the adapter delivers for one send, or leaves behind
MaxBuffered == 3

\* the timeout of _read_until_prompt (2.0 s), in ticks of the clock
ReadTimeout == 2

PROMPT == ">"

\* the bytes the adapter delivers
WireBytes == {"4", CR, PROMPT}

Chars(buffered) == [i \in 1..Len(buffered) |-> buffered[i].c]

\* _read_until_prompt on every byte string the loop can accumulate, computed
\* once
RECURSIVE WireTableFrom(_, _, _)
\* the entries of the byte strings that extend `prefix` by a byte of S and
\* then by at most n - 1 bytes
WireTableFrom(prefix, n, S) ==
    IF n = 0 \/ S = {} THEN <<>>
    ELSE LET c == CHOOSE y \in S : TRUE
             rx == Append(prefix, c)
         IN  (rx :> _read_until_prompt(rx))
                 @@ WireTableFrom(rx, n - 1, WireBytes)
                 @@ WireTableFrom(prefix, n, S \ {c})
WireTable ==
    (<<>> :> _read_until_prompt(<<>>))
        @@ WireTableFrom(<<>>, MaxBuffered, WireBytes)

\* the adapter delivers a byte into the input buffer of the open channel
Arrive(c) ==
    /\ _serial # 0
    /\ _serial \in isOpen
    /\ Len(in_buffer) + (IF pc = "send_read" THEN Len(accumulated) ELSE 0)
           < MaxBuffered
    /\ in_buffer' = Append(in_buffer, [c |-> c, stale |-> FALSE])
    /\ UNCHANGED <<_serial, _connected, _protocol, isOpen, opened, pc, initArg,
                   tx, lastRx, lastResp, result, life, readerVars, accumulated,
                   clock, trace>>

\* send_raw(command) is called: the connected test
SendRawCalls(command) ==
    /\ pc = "idle"
    /\ IF connected
       THEN /\ pc' = "send_reset"
            /\ result' = [op |-> "send_raw", arg |-> command,
                          kind |-> "running", value |-> <<>>]
            /\ in_buffer' = [i \in 1..Len(in_buffer) |->
                                 [c |-> in_buffer[i].c, stale |-> TRUE]]
       ELSE /\ result' = [op |-> "send_raw", arg |-> command,
                          kind |-> "raise", value |-> "RuntimeError"]
            /\ UNCHANGED <<pc, in_buffer>>
    /\ tx' = <<>>
    /\ lastRx' = Nothing
    /\ lastResp' = Nothing
    /\ accumulated' = <<>>
    /\ clock' = 0
    /\ trace' = <<>>
    /\ UNCHANGED <<_serial, _connected, _protocol, isOpen, opened, initArg,
                   life, readerVars>>

\* a variant of the first step that leaves the buffered bytes where they are
ResetInputBuffer_KeepsInput ==
    /\ pc = "send_reset"
    /\ pc' = "send_write"
    /\ trace' = Append(trace, <<"reset", Len(in_buffer)>>)
    /\ UNCHANGED <<_serial, _connected, _protocol, isOpen, opened, initArg,
                   tx, lastRx, lastResp, result, life, readerVars, in_buffer,
                   accumulated, clock>>

\* self._serial.reset_input_buffer()
ResetInputBuffer ==
    /\ pc = "send_reset"
    /\ pc' = "send_write"
    /\ in_buffer' = <<>>
    /\ trace' = Append(trace, <<"reset", Len(in_buffer)>>)
    /\ UNCHANGED <<_serial, _connected, _protocol, isOpen, opened, initArg,
                   tx, lastRx, lastResp, result, life, readerVars,
                   accumulated, clock>>

\* self._serial.write(cmd_bytes), then the sleep
Write(writeFails) ==
    /\ pc = "send_write"
    /\ IF writeFails
       THEN /\ pc' = "idle"
            /\ result' = [result EXCEPT !.kind = "raise",
                                        !.value = "SerialException"]
            /\ UNCHANGED <<tx, trace>>
       ELSE /\ pc' = "send_read"
            /\ tx' = <<result.arg \o <<CR>>>>
            /\ trace' = Append(trace, <<"write", Len(result.arg) + 1>>)
            /\ UNCHANGED result
    /\ UNCHANGED <<_serial, _connected, _protocol, isOpen, opened, initArg,
                   lastRx, lastResp, life, readerVars, in_buffer, accumulated,
                   clock>>

\* _read_until_prompt leaves its loop and send_raw returns the text
SendReturns(bytes) ==
    /\ pc' = "idle"
    /\ lastRx' = Just(Chars(bytes))
    /\ lastResp' = Just(WireTable[Chars(bytes)])
    /\ result' = [result EXCEPT !.kind = "ok",
                                !.value = WireTable[Chars(bytes)]]

\* a variant of the loop that goes on reading after the prompt
ReadChunk_IgnoresPrompt ==
    /\ pc = "send_read"
    /\ clock < ReadTimeout
    /\ in_buffer # <<>>
    /\ accumulated' = accumulated \o in_buffer
    /\ in_buffer' = <<>>
    /\ trace' = Append(trace, <<"read", Len(in_buffer)>>)
    /\ UNCHANGED <<pc, lastRx, lastResp, result>>
    /\ UNCHANGED <<_serial, _connected, _protocol, isOpen, opened, initArg,
                   tx, life, readerVars, clock>>

\* one turn of the loop with bytes waiting: read them all, test for the prompt
ReadChunk ==
    /\ pc = "send_read"
    /\ clock < ReadTimeout
    /\ in_buffer # <<>>
    /\ accumulated' = accumulated \o in_buffer
    /\ in_buffer' = <<>>
    /\ trace' = Append(trace, <<"read", Len(in_buffer)>>)
    /\ IF PROMPT \in Range(Chars(accumulated \o in_buffer))
       THEN SendReturns(accumulated \o in_buffer)
       ELSE UNCHANGED <<pc, lastRx, lastResp, result>>
    /\ UNCHANGED <<_serial, _connected, _protocol, isOpen, opened, initArg,
                   tx, life, readerVars, clock>>

\* the loop test fails: the timeout has elapsed
ReadTimesOut ==
    /\ pc = "send_read"
    /\ clock >= ReadTimeout
    /\ SendReturns(accumulated)
    /\ UNCHANGED <<_serial, _connected, _protocol, isOpen, opened, initArg,
                   tx, life, readerVars, channelVars>>

\* time passes while the loop runs (a read, or the sleep of 0.01 s)
Tick ==
    /\ pc = "send_read"
    /\ clock < ReadTimeout
    /\ clock' = clock + 1
    /\ UNCHANGED <<_serial, _connected, _protocol, isOpen, opened, pc, initArg,
                   tx, lastRx, lastResp, result, life, readerVars, in_buffer,
                   accumulated, trace>>

NextTransport ==
    \/ \E openFails \in BOOLEAN : connect(openFails)
    \/ \E closeFails \in BOOLEAN : disconnect(closeFails)
    \/ \E c \in WireBytes : Arrive(c)
    \/ \E command \in RawCommands : SendRawCalls(command)
    \/ ResetInputBuffer
    \/ \E writeFails \in BOOLEAN : Write(writeFails)
    \/ ReadChunk
    \/ ReadTimesOut
    \/ Tick

SpecTransport == Init /\ [][NextTransport]_vars

\* The thread that called send_raw goes on running: reset_input_buffer and
\* write return or raise, time passes, and the loop test is evaluated.
LiveTransport ==
    /\ SpecTransport
    /\ WF_vars(ResetInputBuffer)
    /\ WF_vars(\E writeFails \in BOOLEAN : Write(writeFails))
    /\ WF_vars(Tick)
    /\ WF_vars(ReadTimesOut)

-----------------------------------------------------------------------------
(* Properties *)

RatEq(a, b) == a[1] * b[2] = b[1] * a[2]
IsPrefix(p, q) == Len(p) <= Len(q) /\ SubSeq(q, 1, Len(p)) = p
ContainsAny(text, words) == \E k \in 1..Len(words) : Contains(text, words[k])

\* the adapter's error keywords, as the specification lists them
ErrorKeywords ==
    << <<"U","N","A","B","L","E"," ","T","O"," ","C","O","N","N","E","C","T">>,
       <<"N","O"," ","D","A","T","A">>,
       <<"C","A","N"," ","E","R","R","O","R">>,
       <<"B","U","S"," ","I","N","I","T">>,
       <<"S","T","O","P","P","E","D">>,
       <<"E","R","R","O","R">>,
       <<"?">> >>

\* C1: extracting the frame `7E8 04 41 0C 1A F8` with header 0x41 gives the
\* bytes 1A F8, and the engine-speed definition decodes them to 1726.
C1_ExtractEngineSpeedFrame ==
    (result.op = "_extract_data_bytes" /\ result.arg = <<TextRpmCanId, H41>>)
        => /\ result.value = Just(<<26, 248>>)
           /\ LET v == PIDDefinition_decode(STANDARD_PIDS[12], <<26, 248>>)
              IN  IsJust(v) /\ RatEq(FromJust(v), <<1726, 1>>)

\* the text a send returns according to the specification: the normalized
\* text, without its first line only when that line is the command
C2_Normalized(rx) ==
    Strip(ReplaceAll(ReplaceAll(ReplaceAll(DecodeAscii(rx), <<CR>>, <<LF>>),
                                <<LF, LF>>, <<LF>>), <<">">>, <<>>))

C2_Expected(command, rx) ==
    LET lines == Split(C2_Normalized(rx), LF)
    IN  IF Len(lines) > 1 /\ lines[1] = command
        THEN Strip(Join(Tail(lines), LF))
        ELSE C2_Normalized(rx)

\* C2: a send drops the first line of the normalized response only when that
\* line is the echoed command; otherwise every line is returned.
C2_EchoOnlyDropped ==
    (result.op = "send_raw" /\ result.kind = "ok")
        => result.value = C2_Expected(result.arg, FromJust(lastRx))

\* C3: a Reading returned by read_pid or read_vag_did has a value or an
\* error, never both and never neither.
C3_ValueXorError ==
    (result.op \in {"read_pid", "read_vag_did"} /\ result.kind = "ok")
        => (result.value.value # Nothing) # (result.value.error # Nothing)

\* C4: send_raw on a connection that never connected, whose connect failed or
\* that was disconnected raises the not-connected error and writes nothing.
C4_SendWhenDisconnected ==
    (result.op = "send_raw"
        /\ life \in {"never", "connect_failed", "disconnected"})
        => /\ result.kind = "raise"
           /\ result.value = "RuntimeError"
           /\ tx = <<>>

\* a send refused after a failed connect() that left an earlier channel open
C4_Witness ==
    /\ result.op = "send_raw"
    /\ result.kind = "raise"
    /\ life = "connect_failed"
    /\ _serial \in isOpen

\* the bytes a successful initialize(protocol) writes, in order
C5_Sequence(protocol) ==
    << <<"A","T","Z",CR>>,
       <<"A","T","E","0",CR>>,
       <<"A","T","L","0",CR>>,
       <<"A","T","S","0",CR>>,
       <<"A","T","H","1",CR>>,
       <<"A","T","C","A","F","0",CR>>,
       <<"A","T","A","T","1",CR>>,
       <<"A","T","S","P",protocol,CR>>,
       <<"0","1","0","0",CR>> >>

\* C5: initialize sends ATZ, ATE0, ATL0, ATS0, ATH1, ATCAF0, ATAT1, ATSP<d> and
\* then 0100, in this order, one after the other's response: what it has
\* written is always a prefix of that sequence, each written command has its
\* response before the next is written, and on success it is the whole of it.
C5_InitOrder ==
    result.op = "initialize"
        => /\ IsPrefix(tx, C5_Sequence(result.arg))
           /\ (tx # <<>> => IsJust(lastResp))
           /\ (result.kind = "ok" /\ result.value
                  => tx = C5_Sequence(result.arg))

C5_Witness ==
    /\ result.op = "initialize"
    /\ result.kind = "ok"
    /\ result.value
    /\ result.arg = "0"
    /\ Len(tx) = 9

\* C6: when a step of initialize gets a response holding an error keyword,
\* initialize stops there and reports failure, and the connection stays
\* connected.
C6_AbortOnErrorKeyword ==
    (result.op = "initialize" /\ result.kind # "raise" /\ IsJust(lastResp)
        /\ ContainsAny(FromJust(lastResp), ErrorKeywords))
        => /\ pc = "idle"
           /\ result.kind = "ok"
           /\ ~result.value
           /\ connected

\* C7: when the response to the final 0100 request holds an error keyword,
\* initialize reports failure and the connection stays connected.
C7_ProbeErrorFails ==
    (result.op = "initialize" /\ Len(tx) = Len(C5_Sequence(result.arg))
        /\ ContainsAny(FromJust(lastResp), ErrorKeywords))
        => /\ result.kind = "ok"
           /\ ~result.value
           /\ connected
           /\ _serial \in isOpen

C7_Witness ==
    /\ result.op = "initialize"
    /\ Len(tx) = Len(C5_Sequence(result.arg))
    /\ lastResp = Just(<<"?">>)
    /\ result.kind = "ok"
    /\ ~result.value

\* C8: initialize reports success only when the ECU answered the 0100
\* request: never on an empty response.
C8_SuccessNeedsAnswer ==
    (result.op = "initialize" /\ result.kind = "ok" /\ result.value)
        => lastResp # Just(<<>>)

\* C9: after disconnect the connection is disconnected whatever the state it
\* was called in and whether or not close() raised; disconnect raises
\* nothing, and a disconnect following a disconnect changes no field.
C9_DisconnectAlways ==
    result.op = "disconnect"
        => ~connected /\ _serial = 0 /\ ~_connected /\ result.kind = "ok"

C9_SecondChangesNothing ==
    (result.op = "disconnect" /\ result'.op = "disconnect")
        => UNCHANGED <<_serial, _connected, _protocol, isOpen, opened, pc>>

C9_Disconnect == []C9_DisconnectAlways /\ [][C9_SecondChangesNothing]_vars

\* disconnect of an initialized connection whose close() raised
C9_Witness ==
    /\ result.op = "disconnect"
    /\ result.value
    /\ _protocol # Nothing
    /\ life = "disconnected"

\* C10: after connect could not open the channel, and after the write of a
\* command failed in send_raw, the connection reports not connected.
C10_TransportFaultDisconnects ==
    /\ (result.op = "connect" /\ ~result.value) => ~connected
    /\ (result.op = "send_raw" /\ result.kind = "raise"
           /\ result.value = "SerialException") => ~connected

\* C11: no reader call ends in an exception, whatever the connection state,
\* the adapter response and the channel fault: a read returns a Reading with
\* an error, read_dtcs a list, enter_extended_session a boolean.
C11_NoExceptionEscapes ==
    result.op \in {"read_pid", "read_vag_did", "read_dtcs",
                   "enter_extended_session"}
        => result.kind = "ok"

\* the marker of a negative response to service 22, and the two characters
\* that follow its first occurrence in the received bytes
C14_Marker == <<"7","F","2","2">>

C14_SubCode(rx) ==
    LET i == CHOOSE k \in 1..Len(rx) :
                 /\ StartsWith(SubSeq(rx, k, Len(rx)), C14_Marker)
                 /\ \A j \in 1..(k - 1) :
                        ~StartsWith(SubSeq(rx, j, Len(rx)), C14_Marker)
    IN  SubSeq(rx, i + 4, i + 5)

C14_Message(sub) ==
    CASE sub = <<"3","1">> -> "Request out of range"
      [] sub = <<"1","4">> -> "Response too long"
      [] sub = <<"3","3">> -> "Security access denied"
      [] sub = <<"1","2">> -> "Sub-function not supported"
      [] OTHER -> "Unknown error"

\* C14: a vendor read whose response holds the marker 7F22 returns no value
\* and the error its sub-code selects: 31 out of range, 14 too long, 33
\* security access denied, 12 sub-function not supported, else unknown.
C14_NegativeResponse ==
    (result.op = "read_vag_did" /\ result.kind = "ok"
        /\ Contains(FromJust(lastRx), C14_Marker))
        => /\ result.value.value = Nothing
           /\ result.value.error =
                  Just(C14_Message(C14_SubCode(FromJust(lastRx))))

C14_Witness ==
    /\ result.op = "read_vag_did"
    /\ result.kind = "ok"
    /\ lastRx = Just(RxNegative33)
    /\ result.value.error = Just("Security access denied")

\* the adapter gave no answer: nothing before the timeout, the prompt alone,
\* or an error keyword
C15_NoAnswer(rx) ==
    \/ rx = <<>>
    \/ rx = <<CR, ">">>
    \/ ContainsAny(rx, ErrorKeywords)

\* C15: when the adapter gives no answer, read_pid and read_vag_did return a
\* Reading with no value, the error "No response from ECU" and no raw text:
\* the response went neither through the frame parser nor through decode.
C15_NoResponseReading ==
    (result.op \in {"read_pid", "read_vag_did"} /\ result.kind = "ok"
        /\ C15_NoAnswer(FromJust(lastRx)))
        => /\ result.value.value = Nothing
           /\ result.value.error = Just("No response from ECU")
           /\ result.value.raw_hex = <<>>

C15_Witness ==
    /\ result.op = "read_pid"
    /\ result.kind = "ok"
    /\ lastRx = Just(RxSearchFail)
    /\ result.value.error = Just("No response from ECU")

\* the received bytes hold the positive-response marker and no error keyword
C20_Confirms(rx) ==
    Contains(rx, <<"5","0">>) /\ ~ContainsAny(rx, ErrorKeywords)

C12_DecodeByWidth ==
    (result.op = "decode" /\ result.kind = "ok")
        => IF Len(result.arg[2]) >= DefinitionOf(result.arg[1]).bytes_returned
           THEN IsJust(result.value)
           ELSE result.value = Nothing

\* C13: for every catalog definition and payload of its declared width, the
\* frame made of a length byte, the response header of the service, the
\* identifier of get_command and the payload is extracted, with that header,
\* to exactly the payload.
C13_RoundTrip ==
    (result.op = "round_trip" /\ result.kind = "ok")
        => result.value = Just(result.arg[2])

\* boost pressure, whose payload is the two header bytes
C13_Witness ==
    /\ result.op = "round_trip"
    /\ result.kind = "ok"
    /\ result.arg = << <<"did", 62470>>, <<98, 65>> >>
    /\ result.value = Just(<<98, 65>>)

\* bit k of a 4-byte mask, k = 0 at the most-significant bit of byte 0
C16_Bit(mask, k) ==
    IF k < 16
    THEN (((mask[1] * 256) + mask[2]) \div (2 ^ (15 - k))) % 2 = 1
    ELSE (((mask[3] * 256) + mask[4]) \div (2 ^ (31 - k))) % 2 = 1

\* C16: for an anchor and a 4-byte mask the scan reports anchor+k+1 if and
\* only if bit k of the mask is set (k = 0 the most-significant bit of byte 0,
\* k = 31 the least-significant bit of byte 3), each once, ascending.
C16_MaskBits ==
    (result.op = "mask" /\ result.kind = "ok")
        => LET anchor == result.arg[1]
               mask == result.arg[2]
               found == result.value
           IN  /\ \A k \in 0..31 :
                      (\E i \in 1..Len(found) : found[i] = anchor + k + 1)
                          <=> C16_Bit(mask, k)
               /\ \A i \in 1..Len(found) :
                      found[i] \in (anchor + 1)..(anchor + 32)
               /\ \A i, j \in 1..Len(found) : i < j => found[i] < found[j]

C16_Witness ==
    /\ result.op = "mask"
    /\ result.kind = "ok"
    /\ result.arg = <<32, <<128, 0, 0, 1>>>>
    /\ result.value = <<33, 64>>

C18_Letter(byte1) ==
    CASE byte1 \div 64 = 0 -> "P"
      [] byte1 \div 64 = 1 -> "C"
      [] byte1 \div 64 = 2 -> "B"
      [] byte1 \div 64 = 3 -> "U"

C18_UpperHex ==
    {"0","1","2","3","4","5","6","7","8","9","A","B","C","D","E","F"}

\* C18: the code read_dtcs makes of a record (b1, b2) other than 00 00 is the
\* letter chosen by the top two bits of b1 and four upper-case hex digits
\* whose value is ((b1 & 0x3F) << 8) | b2; 01 71 gives P0171, 41 71 C0171.
C18_DtcFormat ==
    (result.op = "dtc" /\ result.kind = "ok" /\ result.arg # <<0, 0>>)
        => /\ Len(result.value) = 1
           /\ LET code == result.value[1]
              IN  /\ Len(code) = 5
                  /\ code[1] = C18_Letter(result.arg[1])
                  /\ \A i \in 2..5 : code[i] \in C18_UpperHex
                  /\ (HexVal(code[2]) * 4096) + (HexVal(code[3]) * 256)
                         + (HexVal(code[4]) * 16) + HexVal(code[5])
                       = ((result.arg[1] % 64) * 256) + result.arg[2]
           /\ (result.arg = <<1, 113>>
                  => result.value = << <<"P","0","1","7","1">> >>)
           /\ (result.arg = <<65, 113>>
                  => result.value = << <<"C","0","1","7","1">> >>)

C18_Witness ==
    /\ result.op = "dtc"
    /\ result.kind = "ok"
    /\ result.arg = <<65, 113>>
    /\ result.value = << <<"C","0","1","7","1">> >>

\* the requests of a scan that reaches the last anchor, as written
C17_Requests ==
    << <<"0","1","0","0",CR>>, <<"0","1","2","0",CR>>,
       <<"0","1","4","0",CR>>, <<"0","1","6","0",CR>>,
       <<"0","1","8","0",CR>>, <<"0","1","A","0",CR>>,
       <<"0","1","C","0",CR>> >>

\* the received mask has bit 0 of byte 3 clear
C17_Stops(rx) == rx = RxMaskLast

\* the received bytes hold no 4 data bytes
C17_Unusable(rx) == rx \in {RxNothing, RxNoData, RxMaskShort}

\* C17: the scan queries 0x00, 0x20, ..., 0xC0 in ascending order; after a
\* response without 4 usable data bytes it goes on to the next anchor; after
\* the first mask whose bit 0 of byte 3 is clear it queries no further anchor.
C17_AnchorOrder ==
    (result.op = "scan_supported_pids" /\ tx # <<>>)
        => /\ IsPrefix(tx, C17_Requests)
           /\ (pc = "scan" => Len(tx) < 7 /\ ~C17_Stops(FromJust(lastRx)))
           /\ (result.kind # "raise" /\ Len(tx) < 7
                   /\ C17_Unusable(FromJust(lastRx)) => pc = "scan")
           /\ (result.kind # "raise" /\ C17_Stops(FromJust(lastRx))
                   => pc = "idle" /\ result.kind = "ok")
           /\ (result.kind = "ok"
                   => Len(tx) = 7 \/ C17_Stops(FromJust(lastRx)))

\* anchor 0x00 unanswered, 0x20 answered with a mask that asks for more,
\* 0x40 answered with a mask that does not
C17_Witness ==
    /\ result.op = "scan_supported_pids"
    /\ result.kind = "ok"
    /\ Len(tx) = 3
    /\ lastRx = Just(RxMaskLast)
    /\ result.value = <<33, 64, 65>>
    /\ _supported_pids = {33, 64, 65}

\* the bytes of the hex pairs of the received bytes
C19_Bytes(rx) ==
    LET digits == SelectSeq(rx, LAMBDA c : c \in C18_UpperHex)
    IN  [k \in 1..(Len(digits) \div 2) |->
            (HexVal(digits[(2 * k) - 1]) * 16) + HexVal(digits[2 * k])]

\* the whole 2-byte records after the count byte that follows the first 0x43
\* byte, the padding records left out, cut at the declared count; nothing
\* when there is no 0x43 byte or no count byte
C19_Records(rx) ==
    LET bytes_list == C19_Bytes(rx)
        at == {i \in 1..Len(bytes_list) : bytes_list[i] = 67}
    IN  IF at = {} THEN <<>>
        ELSE LET first == CHOOSE i \in at : \A j \in at : i <= j
                 count == IF first < Len(bytes_list)
                          THEN bytes_list[first + 1] ELSE 0
                 rest == SubSeq(bytes_list, first + 2, Len(bytes_list))
                 records == [k \in 1..(Len(rest) \div 2) |->
                                <<rest[(2 * k) - 1], rest[2 * k]>>]
                 codes == SelectSeq(records, LAMBDA r : r # <<0, 0>>)
             IN  IF Len(codes) <= count THEN codes
                 ELSE SubSeq(codes, 1, count)

\* the record a trouble code stands for
C19_RecordOf(code) ==
    LET type == CHOOSE t \in 0..3 : C18_Letter(t * 64) = code[1]
    IN  <<(type * 64) + (HexVal(code[2]) * 16) + HexVal(code[3]),
          (HexVal(code[4]) * 16) + HexVal(code[5])>>

\* C19: read_dtcs returns, in response order, the codes of the non-padding
\* records after the count byte that follows the first 0x43 byte, at most as
\* many as the count declares; the list is empty when there is no response,
\* no 0x43 byte or a count of 0.
C19_DtcList ==
    (result.op = "read_dtcs" /\ result.kind = "ok")
        => LET rx == FromJust(lastRx)
               expected == IF C15_NoAnswer(rx) THEN <<>> ELSE C19_Records(rx)
           IN  /\ Len(result.value) = Len(expected)
               /\ \A k \in 1..Len(expected) :
                      C19_RecordOf(result.value[k]) = expected[k]

\* count 2, then a padding record, then two codes
C19_Witness ==
    /\ result.op = "read_dtcs"
    /\ result.kind = "ok"
    /\ lastRx = Just(RxDtcPad)
    /\ result.value = << <<"P","0","1","7","1">>, <<"B","0","1","A","3">> >>

\* the fields of the connection and of the reader, and what the call returned
C21_Observable ==
    <<_serial, _connected, _protocol, isOpen, opened, pc, _supported_pids,
      _supported_dids, tx, result>>

\* a call of enter_extended_session that got the positive marker follows one
\* that got it too
C21_SecondPositiveCall ==
    /\ result.op = "enter_extended_session" /\ result.kind = "ok"
    /\ C20_Confirms(FromJust(lastRx))
    /\ result'.op = "enter_extended_session" /\ result'.kind = "ok"
    /\ C20_Confirms(FromJust(lastRx'))

\* C21: when enter_extended_session is called twice in succession and the
\* adapter answers with the positive marker both times, both calls return true
\* and the second leaves the fields of the connection and of the reader (the
\* supported sets a scan filled included) as the first left them.
C21_SecondCallChangesNothing ==
    [][C21_SecondPositiveCall
          => /\ result.value /\ result'.value
             /\ UNCHANGED C21_Observable]_vars

\* a positive answer to the session request of a reader whose scan found
\* identifiers
C21_Witness ==
    /\ result.op = "enter_extended_session"
    /\ result.kind = "ok"
    /\ result.value
    /\ lastRx = Just(RxSessionOk)
    /\ _supported_pids = {33, 64, 65}
    /\ connected

\* the request of a parameter read as it goes over the channel: 01 and two
\* hex digits, or 22 and four, then a carriage return
C22_Request(op, identifier) ==
    IF op = "read_pid"
    THEN <<"0", "1", HexDigits[(identifier \div 16) + 1],
           HexDigits[(identifier % 16) + 1], CR>>
    ELSE <<"2", "2", HexDigits[(identifier \div 4096) + 1],
           HexDigits[((identifier \div 256) % 16) + 1],
           HexDigits[((identifier \div 16) % 16) + 1],
           HexDigits[(identifier % 16) + 1], CR>>

\* C22: a call of read_pid or read_vag_did that returns a Reading, valid or
\* with an error, has written exactly one command, its own request; no call
\* writes a second request or the session request 1003.
C22_OneRequestPerRead ==
    result.op \in {"read_pid", "read_vag_did"}
        => /\ Len(tx) <= 1
           /\ \A k \in 1..Len(tx) : tx[k] = C22_Request(result.op, result.arg)
           /\ (result.kind = "ok" => Len(tx) = 1)

\* a vendor read refused for security access: one request was written
C22_Witness ==
    /\ result.op = "read_vag_did"
    /\ result.kind = "ok"
    /\ result.value.error = Just("Security access denied")
    /\ tx = << <<"2","2","F","4","8","6",CR>> >>

\* the answer to the request of a parameter read: a length byte, the response
\* header, the identifier, the payload, the prompt
C23_Frame(op, identifier, payload) ==
    LET request == C22_Request(op, identifier)
        echoed == SubSeq(request, 3, Len(request) - 1)
        header == IF op = "read_pid" THEN <<"4", "1">> ELSE <<"6", "2">>
    IN  <<"0", HexDigits[(1 + (Len(echoed) \div 2) + Len(payload)) + 1]>>
            \o header \o echoed \o HexText(payload) \o <<CR, CR, ">">>

C23_Payloads == {<<18>>, <<18, 86>>}

C23_InCatalog(op, identifier) ==
    IF op = "read_pid" THEN identifier \in DOMAIN STANDARD_PIDS
    ELSE identifier \in DOMAIN VAG_DIDS

\* C23: read_pid and read_vag_did of an identifier the catalog does not hold
\* write the request all the same and return a Reading with an empty unit;
\* when the answer is a frame with at least one payload byte, the value is the
\* first payload byte and there is no error; the catalog still does not hold
\* the identifier.
C23_UnknownIdentifierRead ==
    (result.op \in {"read_pid", "read_vag_did"} /\ result.kind = "ok"
        /\ ~C23_InCatalog(result.op, result.arg))
        => /\ tx = <<C22_Request(result.op, result.arg)>>
           /\ result.value.unit = ""
           /\ \A payload \in C23_Payloads :
                  lastRx = Just(C23_Frame(result.op, result.arg, payload))
                      => /\ result.value.value = Just(<<payload[1], 1>>)
                         /\ result.value.error = Nothing
           /\ get_pid(153) = Nothing
           /\ get_vag_did(4660) = Nothing

\* the vendor identifier 0x1234 answered with the bytes 12 56
C23_Witness ==
    /\ result.op = "read_vag_did"
    /\ result.arg = 4660
    /\ result.kind = "ok"
    /\ lastRx = Just(C23_Frame("read_vag_did", 4660, <<18, 86>>))
    /\ result.value.value = Just(<<18, 1>>)
    /\ result.value.unit = ""

\* what a send has done to the channel so far is a discard, then a write,
\* then reads
C24_Order ==
    \A k \in 1..Len(trace) :
        trace[k][1] = (IF k = 1 THEN "reset" ELSE IF k = 2 THEN "write"
                                                  ELSE "read")

\* C24: in every send the discard of the buffered input comes before the
\* write of the command and a carriage return, which comes before every
\* read; no byte that was in the input buffer when send was called is among
\* the bytes the send accumulates, and the returned response is made of the
\* accumulated bytes alone.
C24_StaleInputDiscarded ==
    result.op = "send_raw"
        => /\ C24_Order
           /\ (Len(trace) >= 2 => tx = <<result.arg \o <<CR>>>>)
           /\ \A i \in 1..Len(accumulated) : ~accumulated[i].stale
           /\ (result.kind = "ok"
                  => /\ lastRx = Just(Chars(accumulated))
                     /\ Len(trace) >= 2)

\* a send that found two bytes buffered, discarded them and returned the
\* bytes that arrived after its write
C24_Witness ==
    /\ result.op = "send_raw"
    /\ result.kind = "ok"
    /\ trace[1] = <<"reset", 2>>
    /\ Chars(accumulated) = <<"4", PROMPT>>
    /\ result.value = <<"4">>

\* the accumulated bytes as text, normalized
C25_Normalized(chars) ==
    Strip(ReplaceAll(ReplaceAll(ReplaceAll(chars, <<CR>>, <<LF>>),
                                <<LF, LF>>, <<LF>>), <<PROMPT>>, <<>>))

\* that text, or that text without its first line
C25_Texts(chars) ==
    LET lines == Split(C25_Normalized(chars), LF)
    IN  {C25_Normalized(chars), Strip(Join(Tail(lines), LF))}

C25_Sending == pc \in {"send_reset", "send_write", "send_read"}

\* the read loop goes on only without the prompt and within the timeout; a
\* send that has written its command returns, and returns the text of the
\* accumulated bytes, only with the prompt among them or at the timeout
C25_Loop ==
    /\ pc = "send_read"
           => PROMPT \notin Range(Chars(accumulated)) /\ clock <= ReadTimeout
    /\ (result.op = "send_raw" /\ pc = "idle" /\ Len(trace) >= 2)
           => /\ result.kind = "ok"
              /\ PROMPT \in Range(Chars(accumulated)) \/ clock >= ReadTimeout
              /\ result.value \in C25_Texts(Chars(accumulated))

C26_First(bytes_list, b) ==
    CHOOSE i \in 1..Len(bytes_list) :
        bytes_list[i] = b /\ \A j \in 1..(i - 1) : bytes_list[j] # b

\* the lines of a response that have at least 4 bytes, the header among them
C26_Qualifying(lines, header) ==
    {k \in 1..Len(lines) :
        /\ Len(C19_Bytes(lines[k])) >= 4
        /\ \E i \in 1..Len(C19_Bytes(lines[k])) : C19_Bytes(lines[k])[i] = header}

C26_Expected(text, header) ==
    LET lines == Split(text, LF)
        q == C26_Qualifying(lines, header)
    IN  IF q = {} THEN Nothing
        ELSE LET k == CHOOSE m \in q : \A n \in q : m <= n
                 bytes_list == C19_Bytes(lines[k])
                 identifier == IF header = 98 THEN 2 ELSE 1
             IN  Just(SubSeq(bytes_list,
                             C26_First(bytes_list, header) + identifier + 1,
                             Len(bytes_list)))

\* C26: frame extraction goes through the lines in order and skips a line of
\* fewer than 4 bytes or without the header byte; from the first line with 4
\* bytes or more and the header it returns the bytes after the first header
\* byte and the identifier (one byte for header 0x41, two for 0x62), none if
\* none remain, whatever the later lines hold; it returns nothing exactly
\* when no line qualifies.
C26_FirstQualifyingLine ==
    (result.op = "extract" /\ result.kind = "ok")
        => result.value = C26_Expected(result.arg[1], result.arg[2])

\* a short line with the header, a line without it, then the frame; header 41
C26_Witness ==
    /\ result.op = "extract"
    /\ result.kind = "ok"
    /\ result.arg[2] = 65
    /\ result.arg[1] =
           <<"4","1","0","C","1","A",LF,
             "0","5","6","2","F","4","0","6","1","2","3","4",LF,
             "0","4","4","1","0","C","1","A","F","8">>
    /\ result.value = Just(<<26, 248>>)

C27_Calls ==
    {"read_pid", "read_vag_did", "scan_supported_pids",
     "enter_extended_session", "read_dtcs"}

\* the last exchange of a reader call was answered with an error keyword
C27_Negative ==
    /\ result.op \in C27_Calls
    /\ result.kind # "raise"
    /\ lastRx # Nothing
    /\ ContainsAny(FromJust(lastRx), ErrorKeywords)

\* C27: an exchange of a read, scan, session or trouble-code call that the
\* adapter answers with an error keyword changes nothing of the connection,
\* which is connected with its channel open afterwards, and the send that
\* comes next is not refused as not connected.
C27_NegativeKeepsConnection ==
    [][/\ C27_Negative'
           => /\ UNCHANGED <<_serial, _connected, _protocol, isOpen, opened>>
              /\ connected'
       /\ (C27_Negative /\ result'.op \in C27_Calls \cup {"send_raw"})
           => ~(result'.kind = "raise" /\ result'.value = "RuntimeError")]_vars

\* a read answered CAN ERROR on a connected connection
C27_Witness ==
    /\ result.op = "read_pid"
    /\ result.kind = "ok"
    /\ lastRx = Just(RxCanError)
    /\ result.value.error = Just("No response from ECU")
    /\ connected

\* a <= b for fractions with positive denominators
C28_Leq(a, b) == a[1] * b[2] <= b[1] * a[2]

\* C28: for every standard catalog entry that declares a range and every
\* payload of the entry's declared width, decode returns a value between the
\* entry's min_value and max_value.
C28_DecodeInRange ==
    (result.op = "decode" /\ result.kind = "ok" /\ result.arg[1][1] = "pid"
        /\ Len(result.arg[2]) = DefinitionOf(result.arg[1]).bytes_returned
        /\ IsJust(DefinitionOf(result.arg[1]).min_value)
        /\ IsJust(DefinitionOf(result.arg[1]).max_value))
        => /\ IsJust(result.value)
           /\ C28_Leq(FromJust(DefinitionOf(result.arg[1]).min_value),
                      FromJust(result.value))
           /\ C28_Leq(FromJust(result.value),
                      FromJust(DefinitionOf(result.arg[1]).max_value))

\* the bytes 7F 22 at a byte boundary of a hex text
C29_NegativeFrame(raw) ==
    \E k \in 1..Len(raw) :
        /\ k % 2 = 1
        /\ k + 3 <= Len(raw)
        /\ SubSeq(raw, k, k + 3) = T_7F22

C29_Errors ==
    {"Unknown error", "Request out of range", "Response too long",
     "Security access denied", "Sub-function not supported"}

C29_Payloads == {<<18, 52>>, <<127, 34>>}

\* C29: read_vag_did reports a negative-response error only when the response
\* carries the bytes 7F 22 at a byte boundary; a positive response with header
\* 62 and at least one payload byte is decoded to a value, also when its hex
\* digits contain the text 7F22.
C29_NegativeOnlyOnNegativeFrame ==
    (result.op = "read_vag_did" /\ result.kind = "ok")
        => /\ (\E e \in C29_Errors : result.value.error = Just(e))
                  => C29_NegativeFrame(result.value.raw_hex)
           /\ \A payload \in C29_Payloads :
                  lastRx = Just(C23_Frame("read_vag_did", result.arg, payload))
                      => /\ result.value.error = Nothing
                         /\ IsJust(result.value.value)

\* C30: the connection owns at most one open channel: no channel is open
\* that the connection does not reference, so that after a disconnect has
\* returned every channel a connect opened is closed.
C30_NoUnreferencedOpenChannel == isOpen \subseteq {_serial}

=============================================================================
